---------------------------- MODULE Spec2Model ----------------------------
(***************************************************************************)
(* A model of the progression and pacing core of the roguelike:            *)
(*   - AbilitySystem      (src/src/systems/AbilitySystem.ts, lines 1-667)  *)
(*   - PassiveItemSystem  (src/src/systems/PassiveItemSystem.ts)           *)
(* Numbers of the program are JavaScript Numbers (IEEE-754 binary64); the  *)
(* model computes with them as the program does, on exact 53-bit           *)
(* significands with round-to-nearest-even, so that a Math.floor of a      *)
(* product lands where the program's lands.                                *)
(***************************************************************************)
EXTENDS Integers, Sequences, FiniteSets, TLC

-----------------------------------------------------------------------------
(***************************************************************************)
(* Natural numbers of any size: little-endian sequences of limbs in base   *)
(* 2^14, with no zero limb at the top (zero is the empty sequence).        *)
(***************************************************************************)
LimbBits == 14
Base == 2 ^ LimbBits

RECURSIVE BTrim(_)
BTrim(s) ==
  IF s = <<>> THEN <<>>
  ELSE IF s[Len(s)] = 0 THEN BTrim(SubSeq(s, 1, Len(s) - 1))
  ELSE s

RECURSIVE BFromInt(_)
BFromInt(n) == IF n = 0 THEN <<>> ELSE <<n % Base>> \o BFromInt(n \div Base)

RECURSIVE BToInt(_)
BToInt(s) == IF s = <<>> THEN 0 ELSE s[1] + Base * BToInt(Tail(s))

BLimb(s, i) == IF i <= Len(s) THEN s[i] ELSE 0

RECURSIVE BAddC(_, _, _, _)
BAddC(a, b, i, c) ==
  IF i > Len(a) /\ i > Len(b)
  THEN (IF c = 0 THEN <<>> ELSE <<c>>)
  ELSE LET t == BLimb(a, i) + BLimb(b, i) + c
       IN  <<t % Base>> \o BAddC(a, b, i + 1, t \div Base)

BAdd(a, b) == BAddC(a, b, 1, 0)

RECURSIVE BSubC(_, _, _, _)
BSubC(a, b, i, borrow) ==
  IF i > Len(a) THEN <<>>
  ELSE LET t == BLimb(a, i) - BLimb(b, i) - borrow
       IN  IF t < 0 THEN <<t + Base>> \o BSubC(a, b, i + 1, 1)
           ELSE <<t>> \o BSubC(a, b, i + 1, 0)

\* a - b for a >= b
BSub(a, b) == BTrim(BSubC(a, b, 1, 0))

RECURSIVE BCmpAt(_, _, _)
BCmpAt(a, b, i) ==
  IF i = 0 THEN 0
  ELSE IF a[i] > b[i] THEN 1
  ELSE IF a[i] < b[i] THEN -1
  ELSE BCmpAt(a, b, i - 1)

\* -1, 0 or 1 as a < b, a = b or a > b
BCmp(a, b) ==
  IF Len(a) > Len(b) THEN 1
  ELSE IF Len(a) < Len(b) THEN -1
  ELSE BCmpAt(a, b, Len(a))

RECURSIVE BMulSmallC(_, _, _, _)
BMulSmallC(a, k, i, c) ==
  IF i > Len(a) THEN (IF c = 0 THEN <<>> ELSE <<c>>)
  ELSE LET t == a[i] * k + c
       IN  <<t % Base>> \o BMulSmallC(a, k, i + 1, t \div Base)

\* a * k for a limb 0 <= k < Base
BMulSmall(a, k) == IF k = 0 THEN <<>> ELSE BMulSmallC(a, k, 1, 0)

RECURSIVE BMulAt(_, _, _)
BMulAt(a, b, j) ==
  IF j > Len(b) THEN <<>>
  ELSE BAdd(BMulSmall(a, b[j]), <<0>> \o BMulAt(a, b, j + 1))

BMul(a, b) == IF a = <<>> \/ b = <<>> THEN <<>> ELSE BTrim(BMulAt(a, b, 1))

RECURSIVE BDivSmallAt(_, _, _, _)
BDivSmallAt(a, d, i, rem) ==
  IF i = 0 THEN <<>>
  ELSE LET t == rem * Base + a[i]
       IN  BDivSmallAt(a, d, i - 1, t % d) \o <<t \div d>>

\* floor(a / d) for 0 < d <= Base
BDivSmall(a, d) == BTrim(BDivSmallAt(a, d, Len(a), 0))

RECURSIVE BModSmallAt(_, _, _, _)
BModSmallAt(a, d, i, rem) ==
  IF i = 0 THEN rem ELSE BModSmallAt(a, d, i - 1, (rem * Base + a[i]) % d)

BModSmall(a, d) == BModSmallAt(a, d, Len(a), 0)

Zeros(n) == [i \in 1..n |-> 0]

BPow2(k) == Zeros(k \div LimbBits) \o <<2 ^ (k % LimbBits)>>

\* a * 2^k
BShl(a, k) ==
  IF a = <<>> THEN <<>>
  ELSE Zeros(k \div LimbBits) \o BMulSmall(a, 2 ^ (k % LimbBits))

\* floor(a / 2^k)
BShr(a, k) ==
  IF k \div LimbBits >= Len(a) THEN <<>>
  ELSE BDivSmall(SubSeq(a, k \div LimbBits + 1, Len(a)), 2 ^ (k % LimbBits))

RECURSIVE BitLenSmall(_)
BitLenSmall(n) == IF n = 0 THEN 0 ELSE 1 + BitLenSmall(n \div 2)

BBitLen(a) ==
  IF a = <<>> THEN 0 ELSE LimbBits * (Len(a) - 1) + BitLenSmall(a[Len(a)])

BIsOdd(a) == a # <<>> /\ a[1] % 2 = 1

-----------------------------------------------------------------------------
(***************************************************************************)
(* Non-negative IEEE-754 binary64 numbers: [m, e] stands for m * 2^e with  *)
(* 2^52 <= m < 2^53, and zero is [m |-> <<>>, e |-> 0].  Every operation   *)
(* rounds its exact result to nearest, ties to even, as the hardware does. *)
(* The magnitudes of the program stay far from the subnormal and overflow  *)
(* ranges; negative numbers do not occur in the modelled expressions.      *)
(***************************************************************************)
Precision == 53

DZero == [m |-> <<>>, e |-> 0]

\* The double nearest to m * 2^e
DRound(m, e) ==
  LET len == BBitLen(m) IN
  IF len = 0 THEN DZero
  ELSE IF len <= Precision
  THEN [m |-> BShl(m, Precision - len), e |-> e - (Precision - len)]
  ELSE LET s    == len - Precision
           q    == BShr(m, s)
           r    == BSub(m, BShl(q, s))
           c    == BCmp(r, BPow2(s - 1))
           up   == c = 1 \/ (c = 0 /\ BIsOdd(q))
           q2   == IF up THEN BAdd(q, <<1>>) ELSE q
       IN  IF BBitLen(q2) > Precision
           THEN [m |-> BShr(q2, 1), e |-> e + s + 1]
           ELSE [m |-> q2, e |-> e + s]

DFromInt(n) == DRound(BFromInt(n), 0)

\* The decimal literal n/d (d a power of ten below Base), as the parser
\* rounds it: the quotient to 70 fractional bits with a sticky bit.
DLit(n, d) ==
  LET num == BShl(BFromInt(n), 70)
      q   == BDivSmall(num, d)
  IN  IF BModSmall(num, d) = 0 THEN DRound(q, -70)
      ELSE DRound(BAdd(BShl(q, 1), <<1>>), -71)

Min2(a, b) == IF a <= b THEN a ELSE b

DMul(x, y) ==
  IF x.m = <<>> \/ y.m = <<>> THEN DZero ELSE DRound(BMul(x.m, y.m), x.e + y.e)

DAdd(x, y) ==
  IF x.m = <<>> THEN y
  ELSE IF y.m = <<>> THEN x
  ELSE LET lo == Min2(x.e, y.e)
       IN  DRound(BAdd(BShl(x.m, x.e - lo), BShl(y.m, y.e - lo)), lo)

\* -1, 0 or 1 as x < y, x = y or x > y
DCmp(x, y) ==
  IF x.m = <<>> /\ y.m = <<>> THEN 0
  ELSE IF x.m = <<>> THEN -1
  ELSE IF y.m = <<>> THEN 1
  ELSE LET lo == Min2(x.e, y.e)
       IN  BCmp(BShl(x.m, x.e - lo), BShl(y.m, y.e - lo))

\* x - y for x >= y
DSub(x, y) ==
  IF y.m = <<>> THEN x
  ELSE LET lo == Min2(x.e, y.e)
       IN  DRound(BSub(BShl(x.m, x.e - lo), BShl(y.m, y.e - lo)), lo)

\* Math.floor, as an integer
DFloor(x) ==
  IF x.m = <<>> THEN 0
  ELSE IF x.e >= 0 THEN BToInt(BShl(x.m, x.e))
  ELSE BToInt(BShr(x.m, -x.e))

-----------------------------------------------------------------------------
(***************************************************************************)
(* The ability catalog: AbilitySystem.initializeAbilities.  The fields    *)
(* name, description, icon and rarity are presentation and are left out.  *)
(* An optional field that a definition does not set is FALSE, "", {} or 0 *)
(* (JavaScript's undefined, which every test of the program treats as     *)
(* falsy).                                                                 *)
(***************************************************************************)
Ability(id, elementType, maxLevel, damage, cooldown, projectileCount, speed) ==
  [id |-> id, elementType |-> elementType, maxLevel |-> maxLevel,
   damage |-> damage, cooldown |-> cooldown,
   projectileCount |-> projectileCount, speed |-> speed,
   isDerived |-> FALSE, requiredElements |-> {},
   isEvolved |-> FALSE, evolvesFrom |-> "", requiredItem |-> "",
   requiredItemLevel |-> 0]

Derived(def, requiredElements) ==
  [def EXCEPT !.isDerived = TRUE, !.requiredElements = requiredElements]

Evolved(def, evolvesFrom, requiredItem, requiredItemLevel) ==
  [def EXCEPT !.isEvolved = TRUE, !.evolvesFrom = evolvesFrom,
              !.requiredItem = requiredItem,
              !.requiredItemLevel = requiredItemLevel]

\* The definitions in the order the Map holds them (insertion order).
allAbilities ==
  << Ability("fireball", "fire", 5, 15, 1000, 1, 350),
     Ability("frostbolt", "frost", 5, 10, 1200, 1, 300),
     Ability("lightning", "lightning", 5, 12, 800, 1, 450),
     Ability("earthspear", "earth", 5, 20, 1500, 1, 250),
     Ability("firestorm", "fire", 3, 12, 2000, 5, 350),
     Ability("frostnova", "frost", 3, 8, 2500, 8, 300),
     Derived(Ability("lava", "lava", 5, 25, 2000, 1, 200), {"fire", "earth"}),
     Derived(Ability("plasma", "plasma", 5, 30, 1800, 1, 500),
             {"fire", "lightning"}),
     Derived(Ability("crystal", "crystal", 5, 22, 1600, 3, 350),
             {"frost", "earth"}),
     Derived(Ability("superconductor", "superconductor", 5, 18, 2200, 1, 400),
             {"frost", "lightning"}),
     Derived(Ability("blizzard", "blizzard", 5, 20, 2400, 6, 280),
             {"fire", "frost"}),
     Derived(Ability("storm", "storm", 5, 28, 1900, 4, 380),
             {"lightning", "earth"}),
     Evolved(Ability("volcanic_eruption", "lava", 1, 50, 5000, 1, 0),
             "lava", "tome_of_ages", 5),
     Evolved(Ability("supernova", "plasma", 1, 100, 8000, 1, 0),
             "plasma", "elemental_resonance", 5),
     Evolved(Ability("eternal_freeze", "crystal", 1, 60, 6000, 5, 400),
             "crystal", "area_expansion", 5) >>

AbilityIds == {allAbilities[i].id : i \in 1..Len(allAbilities)}

\* allAbilities.get(id), for an id of the catalog
AbilityDef(id) ==
  allAbilities[CHOOSE i \in 1..Len(allAbilities) : allAbilities[i].id = id]

(***************************************************************************)
(* The passive item catalog: PassiveItemSystem.initializeItems.  Each item *)
(* has one effect, [type, value] per level.                                *)
(***************************************************************************)
Item(id, maxLevel, effectType, effectValue) ==
  [id |-> id, maxLevel |-> maxLevel,
   effects |-> <<[type |-> effectType, value |-> effectValue]>>]

allItems ==
  << Item("tome_of_ages", 5, "cooldown", -8),
     Item("elemental_resonance", 5, "damage", 10),
     Item("swift_boots", 5, "speed", 5),
     Item("life_amulet", 5, "health", 20),
     Item("greed_ring", 5, "exp_gain", 10),
     Item("area_expansion", 5, "area", 10),
     Item("projectile_speed", 5, "projectile_speed", 8),
     Item("piercing", 3, "pierce", 1) >>

ItemIds == {allItems[i].id : i \in 1..Len(allItems)}

ItemDef(id) == allItems[CHOOSE i \in 1..Len(allItems) : allItems[i].id = id]

-----------------------------------------------------------------------------
(***************************************************************************)
(* The state.  A Map is a function from its keys; an AbilityInstance is    *)
(* [level, lastCastTime] under its definition's id, a PassiveItemInstance  *)
(* is its level.  call is the last call made on the two systems, with its  *)
(* arguments and what it returned or emitted.                              *)
(***************************************************************************)
VARIABLES equippedAbilities, equippedItems, banishedAbilities, call

\* The largest time any update call of the ability system has been given
VARIABLE latestUpdateTime

(***************************************************************************)
(* WaveSystem: gameTime (a Number, in seconds) and currentWaveIndex, and   *)
(* in waveEvents the waveTriggered events emitted on the scene so far;     *)
(* waveCalls counts the update calls the wave system has received, and    *)
(* scheduledSpawns holds, for each wave fired, the spawns the scene has    *)
(* scheduled for each of its enemy entries.                                *)
(***************************************************************************)
VARIABLES gameTime, currentWaveIndex, waveEvents, waveCalls, scheduledSpawns

abilityVars ==
  <<equippedAbilities, equippedItems, banishedAbilities, call,
    latestUpdateTime>>

waveVars ==
  <<gameTime, currentWaveIndex, waveEvents, waveCalls, scheduledSpawns>>

(***************************************************************************)
(* ConductorSystem: its fields, with the three factors and the two rates   *)
(* of lastPerformanceCheck as doubles; sceneTime is the scene clock last   *)
(* passed to update, and conductorEvents the difficultyAdjusted events the *)
(* last call emitted.                                                      *)
(***************************************************************************)
VARIABLES lastCheckTime, difficultyMultiplier, harassmentFactor,
          resistanceFactor, recentKills, recentDamage, lastPerformanceCheck,
          sceneTime, conductorEvents

conductorVars ==
  <<lastCheckTime, difficultyMultiplier, harassmentFactor, resistanceFactor,
    recentKills, recentDamage, lastPerformanceCheck, sceneTime,
    conductorEvents>>

(***************************************************************************)
(* One Enemy of the scene: its class and currentHealth, a double with a    *)
(* sign since health may end below zero; in enemyCall the last takeDamage  *)
(* call on it.                                                             *)
(***************************************************************************)
VARIABLES enemy, enemyCall

enemyVars == <<enemy, enemyCall>>

\* What the ability and item systems do not touch
\* The level-up flow of the two scenes: playerLevel is the level of the
\* player, gamePaused tells whether GameScene is paused, cardOptions are the
\* options of the cards LevelUpScene shows, and banishMode tells whether the
\* cards carry the listener of the banish mode.
VARIABLES playerLevel, gamePaused, cardOptions, banishMode

levelUpVars == <<playerLevel, gamePaused, cardOptions, banishMode>>

sceneVars == <<waveVars, conductorVars, enemyVars, levelUpVars>>

vars == <<abilityVars, sceneVars>>

NoCall ==
  [op |-> "new", id |-> "", count |-> 0, time |-> 0, pos |-> <<0, 0>>,
   withItems |-> FALSE, result |-> FALSE, options |-> <<>>,
   casts |-> <<>>]

WaveInit ==
  /\ gameTime = DZero
  /\ currentWaveIndex = 0
  /\ waveEvents = <<>>
  /\ waveCalls = 0
  /\ scheduledSpawns = <<>>

ConductorInit ==
  /\ lastCheckTime = 0
  /\ difficultyMultiplier = DFromInt(1)
  /\ harassmentFactor = DFromInt(1)
  /\ resistanceFactor = DFromInt(1)
  /\ recentKills = 0
  /\ recentDamage = 0
  /\ lastPerformanceCheck =
       [healthPercentage |-> DFromInt(100), killRate |-> DZero,
        damageReceived |-> 0]
  /\ sceneTime = 0
  /\ conductorEvents = <<>>

NoHit == [amount |-> 0, elementType |-> "none", died |-> FALSE]

\* new Swarmling(...)
EnemyInit ==
  /\ enemy = [type |-> "swarmling",
              currentHealth |-> [neg |-> FALSE, abs |-> DFromInt(10)]]
  /\ enemyCall = NoHit

LevelUpInit ==
  /\ playerLevel = 1
  /\ gamePaused = FALSE
  /\ cardOptions = <<>>
  /\ banishMode = FALSE

SceneInit == WaveInit /\ ConductorInit /\ EnemyInit /\ LevelUpInit

Init ==
  /\ equippedAbilities = <<>>
  /\ equippedItems = <<>>
  /\ banishedAbilities = {}
  /\ call = NoCall
  /\ latestUpdateTime = 0
  /\ SceneInit

-----------------------------------------------------------------------------
(***************************************************************************)
(* AbilitySystem: equip and upgrade.  Each returns the map after the call  *)
(* and the value returned.                                                 *)
(***************************************************************************)
\* upgradeAbility with success reported at maxLevel
upgradeAbilityNoCap(equipped, abilityId) ==
  IF abilityId \notin DOMAIN equipped
  THEN [equipped |-> equipped, result |-> FALSE]
  ELSE IF equipped[abilityId].level >= AbilityDef(abilityId).maxLevel
  THEN [equipped |-> equipped, result |-> TRUE]
  ELSE [equipped |-> [equipped EXCEPT ![abilityId].level = @ + 1],
        result |-> TRUE]

upgradeAbility(equipped, abilityId) ==
  IF abilityId \notin DOMAIN equipped
  THEN [equipped |-> equipped, result |-> FALSE]
  ELSE IF equipped[abilityId].level >= AbilityDef(abilityId).maxLevel
  THEN [equipped |-> equipped, result |-> FALSE]
  ELSE [equipped |-> [equipped EXCEPT ![abilityId].level = @ + 1],
        result |-> TRUE]

\* equipAbility with success reported for an id outside the catalog
equipAbilityAnyId(equipped, abilityId) ==
  IF abilityId \notin AbilityIds
  THEN [equipped |-> equipped, result |-> TRUE]
  ELSE IF abilityId \in DOMAIN equipped
  THEN upgradeAbility(equipped, abilityId)
  ELSE [equipped |->
          (abilityId :> [level |-> 1, lastCastTime |-> 0]) @@ equipped,
        result |-> TRUE]

\* equipAbility with the instance made anew when it is upgraded
equipAbilityAnew(equipped, abilityId) ==
  IF abilityId \notin AbilityIds
  THEN [equipped |-> equipped, result |-> FALSE]
  ELSE IF abilityId \in DOMAIN equipped
  THEN [equipped |->
          [upgradeAbility(equipped, abilityId).equipped
             EXCEPT ![abilityId].lastCastTime = 0],
        result |-> upgradeAbility(equipped, abilityId).result]
  ELSE [equipped |->
          (abilityId :> [level |-> 1, lastCastTime |-> 0]) @@ equipped,
        result |-> TRUE]

equipAbility(equipped, abilityId) ==
  IF abilityId \notin AbilityIds
  THEN [equipped |-> equipped, result |-> FALSE]
  ELSE IF abilityId \in DOMAIN equipped
  THEN upgradeAbility(equipped, abilityId)
  ELSE [equipped |->
          (abilityId :> [level |-> 1, lastCastTime |-> 0]) @@ equipped,
        result |-> TRUE]

(***************************************************************************)
(* PassiveItemSystem: equip, upgrade, getItemLevel.                        *)
(***************************************************************************)
\* upgradeItem with the level compared by > in place of >=
upgradeItemPastMax(equipped, itemId) ==
  IF itemId \notin DOMAIN equipped
  THEN [equipped |-> equipped, result |-> FALSE]
  ELSE IF equipped[itemId] > ItemDef(itemId).maxLevel
  THEN [equipped |-> equipped, result |-> FALSE]
  ELSE [equipped |-> [equipped EXCEPT ![itemId] = @ + 1], result |-> TRUE]

upgradeItem(equipped, itemId) ==
  IF itemId \notin DOMAIN equipped
  THEN [equipped |-> equipped, result |-> FALSE]
  ELSE IF equipped[itemId] >= ItemDef(itemId).maxLevel
  THEN [equipped |-> equipped, result |-> FALSE]
  ELSE [equipped |-> [equipped EXCEPT ![itemId] = @ + 1], result |-> TRUE]

equipItem(equipped, itemId) ==
  IF itemId \notin ItemIds
  THEN [equipped |-> equipped, result |-> FALSE]
  ELSE IF itemId \in DOMAIN equipped
  THEN upgradeItem(equipped, itemId)
  ELSE [equipped |-> (itemId :> 1) @@ equipped, result |-> TRUE]

getItemLevel(equipped, itemId) ==
  IF itemId \in DOMAIN equipped THEN equipped[itemId] ELSE 0

-----------------------------------------------------------------------------
(***************************************************************************)
(* The statistics of an ability at a level.                                *)
(***************************************************************************)
\* getAbilityDamage with 0.1 a level in place of 0.2
getAbilityDamageTenth(def, level) ==
  DFloor(DMul(DFromInt(def.damage),
              DAdd(DFromInt(1), DMul(DFromInt(level - 1), DLit(1, 10)))))

\* getAbilityCooldown with 0.1 a level in place of 0.05
getAbilityCooldownTenth(def, level) ==
  DFloor(DMul(DFromInt(def.cooldown),
              DSub(DFromInt(1), DMul(DFromInt(level - 1), DLit(1, 10)))))

\* Math.floor(baseDamage * (1 + (level - 1) * 0.2))
getAbilityDamage(def, level) ==
  DFloor(DMul(DFromInt(def.damage),
              DAdd(DFromInt(1), DMul(DFromInt(level - 1), DLit(2, 10)))))

\* Math.floor(baseCooldown * (1 - (level - 1) * 0.05))
getAbilityCooldown(def, level) ==
  DFloor(DMul(DFromInt(def.cooldown),
              DSub(DFromInt(1), DMul(DFromInt(level - 1), DLit(5, 100)))))

\* baseStats.projectileCount || 1, and one more every two levels for two ids
getAbilityProjectileCount(def, level) ==
  LET baseCount == IF def.projectileCount = 0 THEN 1 ELSE def.projectileCount
  IN  IF def.id = "firestorm" \/ def.id = "frostnova"
      THEN baseCount + (level - 1) \div 2
      ELSE baseCount

\* The three statistics of every definition at every level a run can reach,
\* computed once.
AbilityStats ==
  [id \in AbilityIds |->
     [level \in 1..AbilityDef(id).maxLevel |->
        [damage |-> getAbilityDamage(AbilityDef(id), level),
         cooldown |-> getAbilityCooldown(AbilityDef(id), level),
         projectileCount |->
           getAbilityProjectileCount(AbilityDef(id), level)]]]

-----------------------------------------------------------------------------
(***************************************************************************)
(* Casting.  What a cast emits is a sequence of events on the player:      *)
(* requestAttack, or one projectileCreated per projectile of a ring.  An   *)
(* angle is kept in degrees as the fraction num/den of the exact value the *)
(* program approximates in radians (2 * Math.PI is 360 degrees).           *)
(***************************************************************************)
ProjectileClasses ==
  [fire |-> 15, frost |-> 10, lightning |-> 12, earth |-> 20, lava |-> 25,
   plasma |-> 30, crystal |-> 22, superconductor |-> 18, blizzard |-> 20,
   storm |-> 28]

\* new <Element>Projectile(scene, player.x, player.y); FireProjectile by default
createProjectile(elementType, pos) ==
  LET class == IF elementType \in DOMAIN ProjectileClasses
               THEN elementType ELSE "fire"
  IN  [elementType |-> class, damage |-> ProjectileClasses[class],
       pos |-> pos]

castSingleProjectile == << [type |-> "requestAttack"] >>

\* Player.fireProjectile: new FireProjectile(scene, x, y), announced by
\* projectileCreated
fireProjectile(pos) ==
  << [type |-> "projectileCreated",
      projectile |-> [elementType |-> "fire",
                      damage |-> ProjectileClasses["fire"], pos |-> pos]] >>

\* the scene's listener of requestAttack; nearestEnemy tells whether
\* findNearestEnemy has found an enemy within the player's attack range
onPlayerRequestAttack(nearestEnemy, pos) ==
  IF nearestEnemy THEN fireProjectile(pos) ELSE <<>>

\* castCircleProjectiles with the first projectile one step from angle 0
castCircleProjectilesFromOne(def, damage, count, pos) ==
  [i \in 1..count |->
     [type |-> "projectileCreated",
      projectile |->
        [createProjectile(def.elementType, pos) EXCEPT
           !.damage = damage, !.pos = pos],
      angle |-> [num |-> 360 * i, den |-> count]]]

castCircleProjectiles(def, damage, count, pos) ==
  [i \in 1..count |->
     [type |-> "projectileCreated",
      projectile |->
        [createProjectile(def.elementType, pos) EXCEPT
           !.damage = damage, !.pos = pos],
      angle |-> [num |-> 360 * (i - 1), den |-> count]]]

\* The body of castAbility once the two statistics are known
castWith(def, damage, projectileCount, pos) ==
  [damage |-> damage,
   projectileCount |-> projectileCount,
   events |->
     IF projectileCount = 1 THEN castSingleProjectile
     ELSE IF projectileCount <= 8
     THEN castCircleProjectiles(def, damage, projectileCount, pos)
     ELSE <<>>]

castAbility(id, stats, pos) ==
  castWith(AbilityDef(id), stats.damage, stats.projectileCount, pos)

\* tryTriggerWith with the cooldown compared by <= in place of <
tryTriggerLate(id, ability, stats, time, pos) ==
  IF time - ability.lastCastTime <= stats.cooldown
  THEN [ability |-> ability, cast |-> <<>>]
  ELSE [ability |-> [ability EXCEPT !.lastCastTime = time],
        cast |-> <<castAbility(id, stats, pos)>>]

\* as tryTriggerWith, but a time before the last cast passes the gate too
tryTriggerBackward(id, ability, stats, time, pos) ==
  IF time >= ability.lastCastTime
       /\ time - ability.lastCastTime < stats.cooldown
    THEN [ability |-> ability, cast |-> <<>>]
    ELSE [ability |-> [ability EXCEPT !.lastCastTime = time],
          cast |-> <<castAbility(id, stats, pos)>>]

\* The body of tryTriggerAbility once the statistics of the level are known:
\* the instance after the call and, when the cooldown has elapsed, its cast
tryTriggerWith(id, ability, stats, time, pos) ==
  IF time - ability.lastCastTime < stats.cooldown
  THEN [ability |-> ability, cast |-> <<>>]
  ELSE [ability |-> [ability EXCEPT !.lastCastTime = time],
        cast |-> <<castAbility(id, stats, pos)>>]

tryTriggerAbility(id, ability, time, pos) ==
  tryTriggerWith(id, ability, AbilityStats[id][ability.level], time, pos)

\* The map and the casts after every instance has been tried
collectCasts(equipped, tried) ==
  [equipped |-> [id \in DOMAIN equipped |-> tried[id].ability],
   casts |-> [id \in {a \in DOMAIN equipped : tried[a].cast # <<>>} |->
                tried[id].cast[1]]]

\* update(time): every equipped instance is tried; the casts made are kept
\* under the instance's id
update(equipped, time, pos) ==
  collectCasts(equipped,
               [id \in DOMAIN equipped |->
                  tryTriggerAbility(id, equipped[id], time, pos)])

-----------------------------------------------------------------------------
(***************************************************************************)
(* The option generator.  Pools and options are sequences of ids, in the   *)
(* order the program builds them.                                          *)
(***************************************************************************)
Ids(defs) == [i \in 1..Len(defs) |-> defs[i].id]

\* checkDerivedAbilities with one required element enough (some for every)
checkDerivedAbilitiesSome(equipped) ==
  LET equippedElements ==
        {AbilityDef(id).elementType :
           id \in {a \in DOMAIN equipped : ~ AbilityDef(a).isDerived}}
  IN  SelectSeq(allAbilities,
        LAMBDA def :
          /\ def.isDerived /\ def.requiredElements # {}
          /\ def.id \notin DOMAIN equipped
          /\ \E element \in def.requiredElements :
               element \in equippedElements)

checkDerivedAbilities(equipped) ==
  LET equippedElements ==
        {AbilityDef(id).elementType :
           id \in {a \in DOMAIN equipped : ~ AbilityDef(a).isDerived}}
  IN  SelectSeq(allAbilities,
        LAMBDA def :
          /\ def.isDerived /\ def.requiredElements # {}
          /\ def.id \notin DOMAIN equipped
          /\ \A element \in def.requiredElements :
               element \in equippedElements)

banishAbility(banished, abilityId) == banished \cup {abilityId}

\* checkEvolutions with the required item at any level
checkEvolutionsAnyLevel(equipped, items) ==
  SelectSeq(allAbilities,
    LAMBDA def :
      /\ def.isEvolved /\ def.evolvesFrom # "" /\ def.requiredItem # ""
      /\ def.requiredItemLevel # 0
      /\ def.id \notin DOMAIN equipped
      /\ def.evolvesFrom \in DOMAIN equipped
      /\ ~ (equipped[def.evolvesFrom].level
              < AbilityDef(def.evolvesFrom).maxLevel)
      /\ ~ (getItemLevel(items, def.requiredItem) < 1))

checkEvolutions(equipped, items) ==
  SelectSeq(allAbilities,
    LAMBDA def :
      /\ def.isEvolved /\ def.evolvesFrom # "" /\ def.requiredItem # ""
      /\ def.requiredItemLevel # 0
      /\ def.id \notin DOMAIN equipped
      /\ def.evolvesFrom \in DOMAIN equipped
      /\ ~ (equipped[def.evolvesFrom].level
              < AbilityDef(def.evolvesFrom).maxLevel)
      /\ ~ (getItemLevel(items, def.requiredItem) < def.requiredItemLevel))

RemoveAt(seq, i) == SubSeq(seq, 1, i - 1) \o SubSeq(seq, i + 1, Len(seq))

\* The selection loop of both generators, from iteration i on:
\*   for (i; i < Math.min(count, pool.length); i++)
\*     { r = Between(0, pool.length - 1); options.push(pool[r]); pool.splice(r, 1) }
\* as the set of the option lists it can return.
RECURSIVE randomSelection(_, _, _, _)
randomSelection(pool, count, i, options) ==
  IF i < Min2(count, Len(pool))
  THEN UNION { randomSelection(RemoveAt(pool, r), count, i + 1,
                               Append(options, pool[r])) :
               r \in 1..Len(pool) }
  ELSE {options}

\* abilityPool with the instances at their maxLevel left in the upgradeable
\* tier
abilityPoolWithMaxed(equipped, banished, items, withItems) ==
  LET evolutions == IF withItems THEN checkEvolutions(equipped, items)
                    ELSE <<>>
      priorityEvolutions ==
        SelectSeq(evolutions, LAMBDA def : def.id \notin banished)
      priorityDerived ==
        SelectSeq(checkDerivedAbilities(equipped),
                  LAMBDA def : def.id \notin banished)
      unequipped ==
        SelectSeq(allAbilities,
          LAMBDA def : /\ def.id \notin DOMAIN equipped
                       /\ def.id \notin banished
                       /\ ~ def.isDerived
                       /\ ~ def.isEvolved)
      upgradeable ==
        SelectSeq(allAbilities,
          LAMBDA def : /\ def.id \notin banished
                       /\ ~ def.isEvolved
                       /\ def.id \in DOMAIN equipped
                       /\ equipped[def.id].level <= def.maxLevel)
  IN  Ids(priorityEvolutions \o priorityDerived \o unequipped \o upgradeable)

\* abilityPool with the banished abilities left in the upgradeable tier
abilityPoolUpgradeBanished(equipped, banished, items, withItems) ==
  LET evolutions == IF withItems THEN checkEvolutions(equipped, items)
                    ELSE <<>>
      priorityEvolutions ==
        SelectSeq(evolutions, LAMBDA def : def.id \notin banished)
      priorityDerived ==
        SelectSeq(checkDerivedAbilities(equipped),
                  LAMBDA def : def.id \notin banished)
      unequipped ==
        SelectSeq(allAbilities,
          LAMBDA def : /\ def.id \notin DOMAIN equipped
                       /\ def.id \notin banished
                       /\ ~ def.isDerived
                       /\ ~ def.isEvolved)
      upgradeable ==
        SelectSeq(allAbilities,
          LAMBDA def : /\ ~ def.isEvolved
                       /\ def.id \in DOMAIN equipped
                       /\ equipped[def.id].level < def.maxLevel)
  IN  Ids(priorityEvolutions \o priorityDerived \o unequipped \o upgradeable)

\* The pool of getRandomAbilityOptions: evolutions, derived, unequipped,
\* upgradeable
abilityPool(equipped, banished, items, withItems) ==
  LET evolutions == IF withItems THEN checkEvolutions(equipped, items)
                    ELSE <<>>
      priorityEvolutions ==
        SelectSeq(evolutions, LAMBDA def : def.id \notin banished)
      priorityDerived ==
        SelectSeq(checkDerivedAbilities(equipped),
                  LAMBDA def : def.id \notin banished)
      unequipped ==
        SelectSeq(allAbilities,
          LAMBDA def : /\ def.id \notin DOMAIN equipped
                       /\ def.id \notin banished
                       /\ ~ def.isDerived
                       /\ ~ def.isEvolved)
      upgradeable ==
        SelectSeq(allAbilities,
          LAMBDA def : /\ def.id \notin banished
                       /\ ~ def.isEvolved
                       /\ def.id \in DOMAIN equipped
                       /\ equipped[def.id].level < def.maxLevel)
  IN  Ids(priorityEvolutions \o priorityDerived \o unequipped \o upgradeable)

getRandomAbilityOptions(equipped, banished, items, count, withItems) ==
  randomSelection(abilityPool(equipped, banished, items, withItems),
                  count, 0, <<>>)

\* The pool of getRandomItemOptions: unequipped, upgradeable
itemPool(items) ==
  LET unequipped ==
        SelectSeq(allItems, LAMBDA def : def.id \notin DOMAIN items)
      upgradeable ==
        SelectSeq(allItems,
          LAMBDA def : /\ def.id \in DOMAIN items
                       /\ items[def.id] < def.maxLevel)
  IN  Ids(unequipped \o upgradeable)

getRandomItemOptions(items, count) ==
  randomSelection(itemPool(items), count, 0, <<>>)

-----------------------------------------------------------------------------
(***************************************************************************)
(* The calls, as actions.  Each is the whole call: its state change and    *)
(* the record of what it returned.                                         *)
(***************************************************************************)
EquipAbility(abilityId) ==
  LET r == equipAbility(equippedAbilities, abilityId)
  IN  /\ equippedAbilities' = r.equipped
      /\ call' = [NoCall EXCEPT !.op = "equipAbility", !.id = abilityId,
                                !.result = r.result]
      /\ UNCHANGED <<equippedItems, banishedAbilities, latestUpdateTime,
                     sceneVars>>

UpgradeAbility(abilityId) ==
  LET r == upgradeAbility(equippedAbilities, abilityId)
  IN  /\ equippedAbilities' = r.equipped
      /\ call' = [NoCall EXCEPT !.op = "upgradeAbility", !.id = abilityId,
                                !.result = r.result]
      /\ UNCHANGED <<equippedItems, banishedAbilities, latestUpdateTime,
                     sceneVars>>

EquipItem(itemId) ==
  LET r == equipItem(equippedItems, itemId)
  IN  /\ equippedItems' = r.equipped
      /\ call' = [NoCall EXCEPT !.op = "equipItem", !.id = itemId,
                                !.result = r.result]
      /\ UNCHANGED <<equippedAbilities, banishedAbilities, latestUpdateTime,
                     sceneVars>>

UpgradeItem(itemId) ==
  LET r == upgradeItem(equippedItems, itemId)
  IN  /\ equippedItems' = r.equipped
      /\ call' = [NoCall EXCEPT !.op = "upgradeItem", !.id = itemId,
                                !.result = r.result]
      /\ UNCHANGED <<equippedAbilities, banishedAbilities, latestUpdateTime,
                     sceneVars>>

BanishAbility(abilityId) ==
  /\ banishedAbilities' = banishAbility(banishedAbilities, abilityId)
  /\ call' = [NoCall EXCEPT !.op = "banishAbility", !.id = abilityId]
  /\ UNCHANGED <<equippedAbilities, equippedItems, latestUpdateTime,
                 sceneVars>>

Update(time, pos) ==
  \E r \in {update(equippedAbilities, time, pos)} :
    /\ equippedAbilities' = r.equipped
    /\ call' = [NoCall EXCEPT !.op = "update", !.time = time, !.pos = pos,
                              !.casts = r.casts]
    /\ latestUpdateTime' =
         IF time > latestUpdateTime THEN time ELSE latestUpdateTime
    /\ UNCHANGED <<equippedItems, banishedAbilities, sceneVars>>

GetRandomAbilityOptions(count, withItems) ==
  \E options \in getRandomAbilityOptions(equippedAbilities, banishedAbilities,
                                         equippedItems, count, withItems) :
    /\ call' = [NoCall EXCEPT !.op = "getRandomAbilityOptions",
                              !.count = count, !.withItems = withItems,
                              !.options = options]
    /\ UNCHANGED <<equippedAbilities, equippedItems, banishedAbilities,
                   latestUpdateTime, sceneVars>>

GetRandomItemOptions(count) ==
  \E options \in getRandomItemOptions(equippedItems, count) :
    /\ call' = [NoCall EXCEPT !.op = "getRandomItemOptions",
                              !.count = count, !.options = options]
    /\ UNCHANGED <<equippedAbilities, equippedItems, banishedAbilities,
                   latestUpdateTime, sceneVars>>

-----------------------------------------------------------------------------
(***************************************************************************)
(* The callers.  GameScene.showLevelUpScreen draws two ability options,    *)
(* handing over the item system, and one item option; GameScene.update     *)
(* passes the clock of the engine, and the player stands where the scene   *)
(* put it or where it has moved to.                                        *)
(***************************************************************************)
AbilityOptionCount == 2
ItemOptionCount == 1

Positions == {<<480, 270>>, <<100, 50>>}

\* The clock values worth trying in a state: for each equipped instance the
\* first instant its cooldown has elapsed and the instant before, and zero.
ProbeTimes(maxTime) ==
  {0} \cup
  {t \in {equippedAbilities[id].lastCastTime
            + AbilityStats[id][equippedAbilities[id].level].cooldown - d :
          id \in DOMAIN equippedAbilities, d \in {0, 1}} : t <= maxTime}

(***************************************************************************)
(* Spec: both systems under every call, with two multi-shot abilities and  *)
(* one item of the catalog and one id of neither catalog.                  *)
(***************************************************************************)
MaxTime == 2000

SpecAbilities == {"storm", "frostnova", "no_such_ability"}
SpecItems == {"piercing", "no_such_item"}
SpecBanished == {"storm"}

Next ==
  \/ \E id \in SpecAbilities : EquipAbility(id)
  \/ \E id \in SpecAbilities : UpgradeAbility(id)
  \/ \E id \in SpecItems : EquipItem(id)
  \/ \E id \in SpecItems : UpgradeItem(id)
  \/ \E id \in SpecBanished : BanishAbility(id)
  \/ \E t \in ProbeTimes(MaxTime), pos \in Positions : Update(t, pos)
  \/ GetRandomAbilityOptions(AbilityOptionCount, TRUE)
  \/ GetRandomItemOptions(ItemOptionCount)

Spec == Init /\ [][Next]_vars

(***************************************************************************)
(* CatalogSpec: a run with one ability of the catalog, any of them,        *)
(* equipped first (as GameScene.createPlayer equips fireball), then        *)
(* upgraded and cast.                                                      *)
(***************************************************************************)
MaxCatalogTime == 8000

CatalogInit ==
  /\ \E id \in AbilityIds :
       equippedAbilities = equipAbility(<<>>, id).equipped
  /\ equippedItems = <<>>
  /\ banishedAbilities = {}
  /\ call = NoCall
  /\ latestUpdateTime = 0
  /\ SceneInit

CatalogNext ==
  \/ \E id \in DOMAIN equippedAbilities : EquipAbility(id)
  \/ \E id \in DOMAIN equippedAbilities : UpgradeAbility(id)
  \/ \E t \in ProbeTimes(MaxCatalogTime), pos \in Positions : Update(t, pos)

CatalogSpec == CatalogInit /\ [][CatalogNext]_vars


(***************************************************************************)
(* CastSpec: two abilities of three levels under equip, upgrade and        *)
(* update, long enough for an instance to cast more than once.             *)
(***************************************************************************)
MaxCastTime == 5000

CastAbilities == {"firestorm", "frostnova"}

CastNext ==
  \/ \E id \in CastAbilities : EquipAbility(id)
  \/ \E id \in CastAbilities : UpgradeAbility(id)
  \/ \E t \in ProbeTimes(MaxCastTime), pos \in Positions : Update(t, pos)

CastSpec == Init /\ [][CastNext]_vars

(***************************************************************************)
(* EvoSpec: the option generator around one evolution, volcanic_eruption   *)
(* out of lava and tome_of_ages.  The item system is handed over or not.   *)
(***************************************************************************)
EvoAbilities == {"lava", "volcanic_eruption"}
EvoItems == {"tome_of_ages"}

EvoNext ==
  \/ \E id \in EvoAbilities : EquipAbility(id)
  \/ \E id \in EvoItems : EquipItem(id)
  \/ \E id \in EvoAbilities : BanishAbility(id)
  \/ \E withItems \in BOOLEAN :
       GetRandomAbilityOptions(AbilityOptionCount, withItems)

EvoSpec == Init /\ [][EvoNext]_vars

(***************************************************************************)
(* TakeSpec: what the level-up screen offers and the equip calls that take *)
(* an offer, around lava, its evolution and the item the evolution needs,  *)
(* up to their maximal levels.                                             *)
(***************************************************************************)
TakeNext ==
  \/ \E id \in EvoAbilities : EquipAbility(id)
  \/ \E id \in EvoItems : EquipItem(id)
  \/ GetRandomAbilityOptions(AbilityOptionCount, TRUE)
  \/ GetRandomItemOptions(ItemOptionCount)

TakeSpec == Init /\ [][TakeNext]_vars

(***************************************************************************)
(* DerivedSpec: the option generator around one derived ability, lava out  *)
(* of a fire and an earth ability.                                         *)
(***************************************************************************)
DerivedAbilities == {"firestorm", "earthspear", "lava"}
DerivedBanished == {"lava"}

DerivedNext ==
  \/ \E id \in DerivedAbilities : EquipAbility(id)
  \/ \E id \in DerivedBanished : BanishAbility(id)
  \/ GetRandomAbilityOptions(AbilityOptionCount, TRUE)

DerivedSpec == Init /\ [][DerivedNext]_vars

(***************************************************************************)
(* DrawSpec: both option generators under every count up to the default    *)
(* one, with part of the ability catalog banished and an item equipped.    *)
(***************************************************************************)
DefaultOptionCount == 3

DrawCounts == 0..DefaultOptionCount
DrawBanished == {"fireball", "frostbolt", "lightning"}
DrawItems == {"piercing"}

DrawNext ==
  \/ \E id \in DrawBanished : BanishAbility(id)
  \/ \E id \in DrawItems : EquipItem(id)
  \/ \E count \in DrawCounts : GetRandomAbilityOptions(count, TRUE)
  \/ \E count \in DrawCounts : GetRandomItemOptions(count)

DrawSpec == Init /\ [][DrawNext]_vars

(***************************************************************************)
(* BanishSpec: banishing in a run that is under way.  The run starts with  *)
(* nothing equipped, or with a fire and an earth ability (lava can be      *)
(* derived), or with lava and tome_of_ages at level 5 (volcanic_eruption   *)
(* can be evolved); each of these is what equip calls lead to.             *)
(***************************************************************************)
MaxBanishTime == 2000

RECURSIVE equipAll(_, _)
equipAll(equipped, ids) ==
  IF ids = <<>> THEN equipped
  ELSE equipAll(equipAbility(equipped, Head(ids)).equipped, Tail(ids))

BanishLoadouts ==
  { [abilities |-> <<>>, items |-> <<>>],
    [abilities |-> equipAll(<<>>, <<"firestorm", "earthspear">>),
     items |-> <<>>],
    [abilities |-> equipAll(<<>>, <<"lava", "lava", "lava", "lava", "lava">>),
     items |-> ("tome_of_ages" :> 5)] }

BanishIds == {"fireball", "lava", "volcanic_eruption"}
BanishEquipped == {"lava"}

BanishInit ==
  /\ \E loadout \in BanishLoadouts :
       /\ equippedAbilities = loadout.abilities
       /\ equippedItems = loadout.items
  /\ banishedAbilities = {}
  /\ call = NoCall
  /\ latestUpdateTime = 0
  /\ SceneInit

BanishNext ==
  \/ \E id \in BanishIds : BanishAbility(id)
  \/ \E id \in BanishEquipped : EquipAbility(id)
  \/ \E t \in ProbeTimes(MaxBanishTime) : Update(t, <<480, 270>>)
  \/ GetRandomAbilityOptions(AbilityOptionCount, TRUE)

BanishSpec == BanishInit /\ [][BanishNext]_vars

-----------------------------------------------------------------------------
(***************************************************************************)
(* The level-up flow: GameScene.showLevelUpScreen and the listeners of     *)
(* LevelUpScene.  The player carries no gold, so the reroll button is not  *)
(* interactive.                                                            *)
(***************************************************************************)
\* the options of showLevelUpScreen: the drawn abilities, then the drawn items
showLevelUpScreen(equipped, banished, items) ==
  { [i \in 1..Len(a) |-> [id |-> a[i], type |-> "ability"]] \o
    [i \in 1..Len(b) |-> [id |-> b[i], type |-> "item"]] :
      a \in getRandomAbilityOptions(equipped, banished, items,
                                    AbilityOptionCount, TRUE),
      b \in getRandomItemOptions(items, ItemOptionCount) }

\* closeLevelUp: the cards are cleared and GameScene is resumed
closeLevelUp ==
  /\ cardOptions' = <<>>
  /\ banishMode' = FALSE
  /\ gamePaused' = FALSE

\* the player gains a level in the running scene: onPlayerLevelUp pauses
\* the scene and shows the cards of a draw
OnPlayerLevelUp ==
  /\ ~ gamePaused
  /\ playerLevel' = playerLevel + 1
  /\ gamePaused' = TRUE
  /\ cardOptions' \in showLevelUpScreen(equippedAbilities, banishedAbilities,
                                        equippedItems)
  /\ banishMode' = FALSE
  /\ call' = [NoCall EXCEPT !.op = "showLevelUpScreen"]
  /\ UNCHANGED <<equippedAbilities, equippedItems, banishedAbilities,
                 latestUpdateTime, waveVars, conductorVars, enemyVars>>

\* a click on the background of card i, whose listener stays in the banish
\* mode too: the select callback of showLevelUpScreen, then closeLevelUp
OnCardSelected(i) ==
  /\ i \in DOMAIN cardOptions
  /\ IF cardOptions[i].type = "ability"
       THEN /\ equippedAbilities' =
                 equipAbility(equippedAbilities, cardOptions[i].id).equipped
            /\ UNCHANGED equippedItems
       ELSE /\ equippedItems' =
                 equipItem(equippedItems, cardOptions[i].id).equipped
            /\ UNCHANGED equippedAbilities
  /\ closeLevelUp
  /\ call' = [NoCall EXCEPT !.op = "onCardSelected",
                            !.id = cardOptions[i].id]
  /\ UNCHANGED <<banishedAbilities, latestUpdateTime, playerLevel, waveVars,
                 conductorVars, enemyVars>>

\* a click on the banish button
EnterBanishMode ==
  /\ cardOptions # <<>>
  /\ banishMode' = TRUE
  /\ call' = [NoCall EXCEPT !.op = "enterBanishMode"]
  /\ UNCHANGED <<equippedAbilities, equippedItems, banishedAbilities,
                 latestUpdateTime, playerLevel, gamePaused, cardOptions,
                 waveVars, conductorVars, enemyVars>>

\* a click on card i in the banish mode: the banish callback banishes an
\* ability and calls showLevelUpScreen, which pauses the scene and has the
\* cards of a new draw made; when it returns, the listener goes on to
\* closeLevelUp, which clears the cards there are and resumes the scene
OnCardBanished(i) ==
  /\ banishMode
  /\ i \in DOMAIN cardOptions
  /\ banishedAbilities' =
       IF cardOptions[i].type = "ability"
         THEN banishAbility(banishedAbilities, cardOptions[i].id)
         ELSE banishedAbilities
  /\ \E redrawn \in showLevelUpScreen(equippedAbilities, banishedAbilities',
                                       equippedItems) :
       closeLevelUp
  /\ call' = [NoCall EXCEPT !.op = "onCardBanished",
                            !.id = cardOptions[i].id]
  /\ UNCHANGED <<equippedAbilities, equippedItems, latestUpdateTime,
                 playerLevel, waveVars, conductorVars, enemyVars>>

(***************************************************************************)
(* LevelUpSpec: the level-ups of a player up to MaxPlayerLevel.            *)
(***************************************************************************)
MaxPlayerLevel == 3

LevelUpNext ==
  \/ playerLevel < MaxPlayerLevel /\ OnPlayerLevelUp
  \/ \E i \in DOMAIN cardOptions : OnCardSelected(i)
  \/ EnterBanishMode
  \/ \E i \in DOMAIN cardOptions : OnCardBanished(i)

LevelUpSpec == Init /\ [][LevelUpNext]_vars

-----------------------------------------------------------------------------
(***************************************************************************)
(* WaveSystem.  Wave times are seconds; update takes the frame delta in    *)
(* milliseconds and accumulates gameTime in double arithmetic.             *)
(***************************************************************************)
Enemies(type, count) == [type |-> type, count |-> count]

WaveConfig(time, enemies, isBoss) ==
  [time |-> time, enemies |-> enemies, isBoss |-> isBoss]

waves ==
  << WaveConfig(0, <<Enemies("swarmling", 3)>>, FALSE),
     WaveConfig(180, <<Enemies("swarmling", 30)>>, FALSE),
     WaveConfig(300, <<Enemies("swarmling", 10), Enemies("frostbat", 5)>>,
                FALSE),
     WaveConfig(420, <<Enemies("swarmling", 15), Enemies("frostbat", 8),
                       Enemies("rockgolem", 3)>>, FALSE),
     WaveConfig(600, <<Enemies("boss_lava_turtle", 1)>>, TRUE),
     WaveConfig(720, <<Enemies("rockgolem", 10), Enemies("frostbat", 10)>>,
                FALSE),
     WaveConfig(900, <<Enemies("elite_swarmling", 5),
                       Enemies("elite_frostbat", 3),
                       Enemies("elite_rockgolem", 2)>>, FALSE),
     WaveConfig(1080, <<Enemies("swarmling", 50), Enemies("frostbat", 20),
                        Enemies("rockgolem", 10)>>, FALSE),
     WaveConfig(1200, <<Enemies("boss_chaos_alchemist", 1)>>, TRUE) >>

\* the waveTriggered event carries the wave
triggerWave(wave) == << [type |-> "waveTriggered", wave |-> wave] >>

\* as adjustEnemyCount, but at least one enemy of a wave entry is kept
adjustEnemyCountAtLeastOne(baseCount, multiplier) ==
  IF DFloor(DMul(DFromInt(baseCount), multiplier)) = 0 /\ baseCount > 0
    THEN 1
    ELSE DFloor(DMul(DFromInt(baseCount), multiplier))

\* Math.floor(baseCount * this.difficultyMultiplier)
adjustEnemyCount(baseCount, multiplier) ==
  DFloor(DMul(DFromInt(baseCount), multiplier))

\* the scene's listener of waveTriggered: for each enemy entry of the wave,
\* the number of delayed calls of spawnEnemyByType it schedules
onWaveTriggered(wave, multiplier) ==
  [i \in DOMAIN wave.enemies |->
     [type |-> wave.enemies[i].type,
      count |-> adjustEnemyCount(wave.enemies[i].count, multiplier)]]

\* as checkWave, but a wave whose time equals gameTime is not yet due
checkWaveStrict(time, index) ==
  IF index < Len(waves)
    THEN IF DCmp(time, DFromInt(waves[index + 1].time)) > 0
           THEN [currentWaveIndex |-> index + 1,
                 emitted |-> triggerWave(waves[index + 1])]
           ELSE [currentWaveIndex |-> index, emitted |-> <<>>]
    ELSE [currentWaveIndex |-> index, emitted |-> <<>>]

\* as checkWave, but a wave that is due together with its successor is
\* passed over
checkWaveSkipping(time, index) ==
  IF index < Len(waves)
    THEN IF DCmp(time, DFromInt(waves[index + 1].time)) >= 0
           THEN IF index + 1 < Len(waves)
                     /\ DCmp(time, DFromInt(waves[index + 2].time)) >= 0
                  THEN [currentWaveIndex |-> index + 2,
                        emitted |-> triggerWave(waves[index + 2])]
                  ELSE [currentWaveIndex |-> index + 1,
                        emitted |-> triggerWave(waves[index + 1])]
           ELSE [currentWaveIndex |-> index, emitted |-> <<>>]
    ELSE [currentWaveIndex |-> index, emitted |-> <<>>]

\* as checkWave, but the index stays where it was after a wave has fired
checkWaveReplay(time, index) ==
  IF index < Len(waves)
    THEN IF DCmp(time, DFromInt(waves[index + 1].time)) >= 0
           THEN [currentWaveIndex |-> index,
                 emitted |-> triggerWave(waves[index + 1])]
           ELSE [currentWaveIndex |-> index, emitted |-> <<>>]
    ELSE [currentWaveIndex |-> index, emitted |-> <<>>]

\* the body of update after gameTime has been advanced; waves[index + 1] is
\* the source's this.waves[this.currentWaveIndex]
checkWave(time, index) ==
  IF index < Len(waves)
    THEN IF DCmp(time, DFromInt(waves[index + 1].time)) >= 0
           THEN [currentWaveIndex |-> index + 1,
                 emitted |-> triggerWave(waves[index + 1])]
           ELSE [currentWaveIndex |-> index, emitted |-> <<>>]
    ELSE [currentWaveIndex |-> index, emitted |-> <<>>]

\* this.gameTime += deltaTime / 1000
advanceGameTime(time, deltaTime) == DAdd(time, DLit(deltaTime, 1000))

WaveSystemUpdate(deltaTime) ==
  \E t \in {advanceGameTime(gameTime, deltaTime)} :
    \E r \in {checkWave(t, currentWaveIndex)} :
      /\ gameTime' = t
      /\ currentWaveIndex' = r.currentWaveIndex
      /\ waveEvents' = waveEvents \o r.emitted
      /\ waveCalls' = waveCalls + 1
      /\ scheduledSpawns' =
           scheduledSpawns \o
             [i \in DOMAIN r.emitted |->
                onWaveTriggered(r.emitted[i].wave, difficultyMultiplier)]
      /\ UNCHANGED <<abilityVars, conductorVars, enemyVars, levelUpVars>>

(***************************************************************************)
(* A run of the wave system: jumps of about one to three minutes (a        *)
(* resumed or stalled scene), and frames of a tenth of a second while the  *)
(* next wave is less than a second away, or one jump past the whole        *)
(* timeline, until gameTime has passed MaxWaveTime seconds and no wave is  *)
(* left.                                                                   *)
(***************************************************************************)
MaxWaveTime == 1300

FrameDelta == 100

WaveDeltas == {FrameDelta, 59900, 60000, 180000, 1500000}

NearNextWave ==
  /\ currentWaveIndex < Len(waves)
  /\ DCmp(gameTime, DFromInt(waves[currentWaveIndex + 1].time)) < 0
  /\ DCmp(DAdd(gameTime, DFromInt(1)),
          DFromInt(waves[currentWaveIndex + 1].time)) >= 0

WaveNext ==
  \E deltaTime \in WaveDeltas :
    /\ \/ DCmp(gameTime, DFromInt(MaxWaveTime)) <= 0
       \/ currentWaveIndex < Len(waves)
    /\ deltaTime = FrameDelta => NearNextWave
    /\ WaveSystemUpdate(deltaTime)

WaveSpec == Init /\ [][WaveNext]_vars

\* The scene calls update on every frame: while a wave is left to fire,
\* another call of update comes
WaveCalled == currentWaveIndex < Len(waves) /\ waveCalls' = waveCalls + 1

WaveFairSpec == WaveSpec /\ WF_waveCalls(WaveCalled)

-----------------------------------------------------------------------------
(***************************************************************************)
(* ConductorSystem.  Scene time and damage amounts are whole numbers; the  *)
(* factors, killRate and healthPercentage are computed in doubles.         *)
(* survivalTime, which nothing reads, is left out of lastPerformanceCheck. *)
(***************************************************************************)
checkInterval == 30000

DMin(x, y) == IF DCmp(x, y) <= 0 THEN x ELSE y

DMax(x, y) == IF DCmp(x, y) >= 0 THEN x ELSE y

\* as increase, but without the upper bound
increaseUnbounded(factor, upper) == DAdd(factor, DLit(1, 10))

\* Math.min(upper, factor + 0.1)
increase(factor, upper) == DMin(upper, DAdd(factor, DLit(1, 10)))

\* Math.max(lower, factor - 0.1)
decrease(factor, lower) == DMax(lower, DSub(factor, DLit(1, 10)))

\* factor * 0.95 + 1.0 * 0.05
decay(factor) ==
  DAdd(DMul(factor, DLit(95, 100)), DMul(DFromInt(1), DLit(5, 100)))

isPerformingWell(perf) ==
  /\ DCmp(perf.healthPercentage, DFromInt(70)) > 0
  /\ DCmp(perf.killRate, DFromInt(5)) > 0
  /\ perf.damageReceived < 50

\* as isStruggling, but with the killRate threshold of isPerformingWell
isStrugglingBelowFive(perf) ==
  \/ DCmp(perf.healthPercentage, DFromInt(40)) < 0
  \/ DCmp(perf.killRate, DLit(51, 10)) < 0
  \/ perf.damageReceived > 100

isStruggling(perf) ==
  \/ DCmp(perf.healthPercentage, DFromInt(40)) < 0
  \/ DCmp(perf.killRate, DFromInt(2)) < 0
  \/ perf.damageReceived > 100

\* as adjustDifficulty, but resistanceFactor is bounded like
\* difficultyMultiplier
adjustDifficultyNarrow(multiplier, harassment, resistance, perf) ==
  IF isPerformingWell(perf)
    THEN [multiplier |-> increase(multiplier, DLit(13, 10)),
          harassment |-> increase(harassment, DLit(15, 10)),
          resistance |-> increase(resistance, DLit(13, 10))]
    ELSE IF isStruggling(perf)
      THEN [multiplier |-> decrease(multiplier, DLit(7, 10)),
            harassment |-> decrease(harassment, DLit(5, 10)),
            resistance |-> decrease(resistance, DLit(7, 10))]
      ELSE [multiplier |-> decay(multiplier),
            harassment |-> decay(harassment),
            resistance |-> decay(resistance)]

\* the three factors after an evaluation of perf
adjustDifficulty(multiplier, harassment, resistance, perf) ==
  IF isPerformingWell(perf)
    THEN [multiplier |-> increase(multiplier, DLit(13, 10)),
          harassment |-> increase(harassment, DLit(15, 10)),
          resistance |-> increase(resistance, DLit(15, 10))]
    ELSE IF isStruggling(perf)
      THEN [multiplier |-> decrease(multiplier, DLit(7, 10)),
            harassment |-> decrease(harassment, DLit(5, 10)),
            resistance |-> decrease(resistance, DLit(5, 10))]
      ELSE [multiplier |-> decay(multiplier),
            harassment |-> decay(harassment),
            resistance |-> decay(resistance)]

NoPlayer == [currentHealth |-> 0, maxHealth |-> 0]

\* as analyzePlayerPerformance, but the counters are not reset
analyzeKeepingCounters(perf, kills, damage, player) ==
  [perf |-> [healthPercentage |->
               DMul(DLit(player.currentHealth, player.maxHealth),
                    DFromInt(100)),
             killRate |-> DLit(kills, checkInterval \div 1000),
             damageReceived |-> damage],
   recentKills |-> kills, recentDamage |-> damage]

\* lastPerformanceCheck and the two counters after the analysis; without a
\* player all three stay as they were
analyzePlayerPerformance(perf, kills, damage, player) ==
  IF player = NoPlayer
    THEN [perf |-> perf, recentKills |-> kills, recentDamage |-> damage]
    ELSE [perf |-> [healthPercentage |->
                      DMul(DLit(player.currentHealth, player.maxHealth),
                           DFromInt(100)),
                    killRate |-> DLit(kills, checkInterval \div 1000),
                    damageReceived |-> damage],
          recentKills |-> 0, recentDamage |-> 0]

evaluate(time, a) ==
  \E f \in {adjustDifficulty(difficultyMultiplier, harassmentFactor,
                             resistanceFactor, a.perf)} :
    /\ lastCheckTime' = time
    /\ lastPerformanceCheck' = a.perf
    /\ recentKills' = a.recentKills
    /\ recentDamage' = a.recentDamage
    /\ difficultyMultiplier' = f.multiplier
    /\ harassmentFactor' = f.harassment
    /\ resistanceFactor' = f.resistance
    /\ conductorEvents' = << [type |-> "difficultyAdjusted", multiplier |-> f.multiplier,
                              harassment |-> f.harassment,
                              resistance |-> f.resistance] >>

\* as checkDue, but a full interval is not yet enough
checkDueLate(time, last) == time - last > checkInterval

\* the condition of update
checkDue(time, last) == time - last >= checkInterval

ConductorUpdate(time, player) ==
  /\ sceneTime' = time
  /\ IF checkDue(time, lastCheckTime)
       THEN evaluate(time, analyzePlayerPerformance(lastPerformanceCheck,
                                                    recentKills, recentDamage,
                                                    player))
       ELSE /\ conductorEvents' = <<>>
            /\ UNCHANGED <<lastCheckTime, difficultyMultiplier,
                           harassmentFactor, resistanceFactor, recentKills,
                           recentDamage, lastPerformanceCheck>>
  /\ UNCHANGED <<abilityVars, waveVars, enemyVars, levelUpVars>>

RecordKill ==
  /\ recentKills' = recentKills + 1
  /\ conductorEvents' = <<>>
  /\ UNCHANGED <<lastCheckTime, difficultyMultiplier, harassmentFactor,
                 resistanceFactor, recentDamage, lastPerformanceCheck,
                 sceneTime>>
  /\ UNCHANGED <<abilityVars, waveVars, enemyVars, levelUpVars>>

RecordDamage(amount) ==
  /\ recentDamage' = recentDamage + amount
  /\ conductorEvents' = <<>>
  /\ UNCHANGED <<lastCheckTime, difficultyMultiplier, harassmentFactor,
                 resistanceFactor, recentKills, lastPerformanceCheck,
                 sceneTime>>
  /\ UNCHANGED <<abilityVars, waveVars, enemyVars, levelUpVars>>

\* as ConductorReset, but the time of the last evaluation is kept
ConductorResetKeepingClock ==
  /\ difficultyMultiplier' = DFromInt(1)
  /\ harassmentFactor' = DFromInt(1)
  /\ resistanceFactor' = DFromInt(1)
  /\ recentKills' = 0
  /\ recentDamage' = 0
  /\ conductorEvents' = <<>>
  /\ UNCHANGED <<lastCheckTime, lastPerformanceCheck, sceneTime>>
  /\ UNCHANGED <<abilityVars, waveVars, enemyVars, levelUpVars>>

ConductorReset ==
  /\ difficultyMultiplier' = DFromInt(1)
  /\ harassmentFactor' = DFromInt(1)
  /\ resistanceFactor' = DFromInt(1)
  /\ recentKills' = 0
  /\ recentDamage' = 0
  /\ lastCheckTime' = 0
  /\ conductorEvents' = <<>>
  /\ UNCHANGED <<lastPerformanceCheck, sceneTime>>
  /\ UNCHANGED <<abilityVars, waveVars, enemyVars, levelUpVars>>

(***************************************************************************)
(* A scene feeding the conductor: the clock advances by ClockSteps up to   *)
(* MaxConductorTime; enemies die one recordKill at a time, up to MaxKills  *)
(* in a period, and the player is hit for DamageAmounts while the damage   *)
(* of the period is at most MaxDamage.  To keep the run finite the clock   *)
(* moves, and hits land, only at the kill counts of ProbeKills, which lie  *)
(* on both sides of each killRate threshold.                               *)
(***************************************************************************)
MaxConductorTime == 60000
MaxKills == 151
MaxDamage == 100

ProbeKills == {0, 59, 60, MaxKills - 1, MaxKills}
ClockSteps == {10000, checkInterval}
DamageAmounts == {60}
Players == {[currentHealth |-> 100, maxHealth |-> 100],
            [currentHealth |-> 30, maxHealth |-> 100]}

Telemetry(amounts) ==
  \/ recentKills < MaxKills /\ recentDamage = 0 /\ RecordKill
  \/ \E amount \in amounts :
       /\ recentKills \in ProbeKills
       /\ recentDamage <= MaxDamage
       /\ RecordDamage(amount)

Tick(maxTime, steps, players, probes) ==
  \E step \in steps, player \in players :
    /\ recentKills \in probes
    /\ sceneTime + step <= maxTime
    /\ ConductorUpdate(sceneTime + step, player)

ConductorNext ==
  \/ Telemetry(DamageAmounts)
  \/ Tick(MaxConductorTime, ClockSteps, Players, ProbeKills)

ConductorSpec == Init /\ [][ConductorNext]_vars

(***************************************************************************)
(* Six evaluation periods of a scene whose player stays at full health and *)
(* is never hit, so that the kills of a period alone make the evaluation   *)
(* struggling (none), neutral (60) or performing well (MaxKills); the      *)
(* conductor may be reset at any moment.                                   *)
(***************************************************************************)
MaxDifficultyTime == 180000

DifficultyKills == {0, 60, MaxKills}

DifficultyNext ==
  \/ recentKills < MaxKills /\ RecordKill
  \/ Tick(MaxDifficultyTime, {checkInterval},
          {[currentHealth |-> 100, maxHealth |-> 100]}, DifficultyKills)
  \/ ConductorReset

DifficultySpec == Init /\ [][DifficultyNext]_vars

(***************************************************************************)
(* Evaluations over a grid of performances: a period ends with any of      *)
(* KillGrid kills and DamageGrid damage recorded and the player at any of  *)
(* HealthGrid health out of 100; the values lie on and next to every       *)
(* threshold of the two classifications.                                   *)
(***************************************************************************)
MaxClassifyTime == 60000

KillGrid == {0, 59, 60, 61, 149, 150, 151}
DamageGrid == {0, 49, 50, 51, 100, 101}
HealthGrid == {0, 39, 40, 41, 70, 71, 100}

ClassifyInit ==
  /\ equippedAbilities = <<>>
  /\ equippedItems = <<>>
  /\ banishedAbilities = {}
  /\ call = NoCall
  /\ latestUpdateTime = 0
  /\ WaveInit
  /\ EnemyInit
  /\ LevelUpInit
  /\ lastCheckTime = 0
  /\ difficultyMultiplier = DFromInt(1)
  /\ harassmentFactor = DFromInt(1)
  /\ resistanceFactor = DFromInt(1)
  /\ recentKills \in KillGrid
  /\ recentDamage \in DamageGrid
  /\ lastPerformanceCheck =
       [healthPercentage |-> DFromInt(100), killRate |-> DZero,
        damageReceived |-> 0]
  /\ sceneTime = 0
  /\ conductorEvents = <<>>

ClassifyNext ==
  \E health \in HealthGrid :
    /\ sceneTime + checkInterval <= MaxClassifyTime
    /\ ConductorUpdate(sceneTime + checkInterval,
                       [currentHealth |-> health, maxHealth |-> 100])

ClassifySpec == ClassifyInit /\ [][ClassifyNext]_vars

(***************************************************************************)
(* The wave timeline under an adapting conductor: the period that ends at  *)
(* the first evaluation has seen any of DifficultyKills kills, later ones  *)
(* none, the player stays at full health, and the wave system is updated   *)
(* in jumps of SpawnDeltas until gameTime has passed MaxSpawnWaveTime      *)
(* seconds.                                                                *)
(***************************************************************************)
MaxSpawnTime == 90000
MaxSpawnWaveTime == 1200

SpawnDeltas == {300000, 600000}

SpawnInit ==
  /\ equippedAbilities = <<>>
  /\ equippedItems = <<>>
  /\ banishedAbilities = {}
  /\ call = NoCall
  /\ latestUpdateTime = 0
  /\ WaveInit
  /\ EnemyInit
  /\ LevelUpInit
  /\ lastCheckTime = 0
  /\ difficultyMultiplier = DFromInt(1)
  /\ harassmentFactor = DFromInt(1)
  /\ resistanceFactor = DFromInt(1)
  /\ recentKills \in DifficultyKills
  /\ recentDamage = 0
  /\ lastPerformanceCheck =
       [healthPercentage |-> DFromInt(100), killRate |-> DZero,
        damageReceived |-> 0]
  /\ sceneTime = 0
  /\ conductorEvents = <<>>

SpawnNext ==
  \/ Tick(MaxSpawnTime, {checkInterval},
          {[currentHealth |-> 100, maxHealth |-> 100]}, DifficultyKills)
  \/ \E deltaTime \in SpawnDeltas :
       /\ DCmp(gameTime, DFromInt(MaxSpawnWaveTime)) <= 0
       /\ WaveSystemUpdate(deltaTime)

SpawnSpec == SpawnInit /\ [][SpawnNext]_vars

-----------------------------------------------------------------------------
(***************************************************************************)
(* Enemy.takeDamage.  The resistance table of a class is the default table *)
(* of Enemy overridden by the setElementResistance calls of its            *)
(* constructor; multipliers are doubles, given here in tenths.             *)
(***************************************************************************)
defaultResistances ==
  [e \in {"fire", "frost", "lightning", "earth"} |-> 10]

EnemyClasses ==
  [swarmling |-> [health |-> 10, resistances |-> defaultResistances],
   frostbat  |-> [health |-> 15,
                  resistances |-> [defaultResistances EXCEPT
                                     !["frost"] = 2, !["fire"] = 15]],
   rockgolem |-> [health |-> 50,
                  resistances |-> [defaultResistances EXCEPT
                                     !["fire"] = 7, !["frost"] = 7,
                                     !["lightning"] = 8, !["earth"] = 18]]]

elementResistances(type) ==
  [e \in DOMAIN EnemyClasses[type].resistances |->
     DLit(EnemyClasses[type].resistances[e], 10)]

\* as finalDamage, but an element missing from the table does no damage
finalDamageKnownOnly(table, amount, elementType) ==
  IF elementType # "none" /\ elementType \in DOMAIN table
    THEN DMul(amount, table[elementType])
    ELSE IF elementType = "none" THEN amount ELSE DZero

\* finalDamage of takeDamage
finalDamage(table, amount, elementType) ==
  IF elementType # "none" /\ elementType \in DOMAIN table
    THEN DMul(amount, table[elementType])
    ELSE amount

\* this.currentHealth -= finalDamage
subtractHealth(health, damage) ==
  IF health.neg
    THEN [neg |-> TRUE, abs |-> DAdd(health.abs, damage)]
    ELSE IF DCmp(health.abs, damage) >= 0
      THEN [neg |-> FALSE, abs |-> DSub(health.abs, damage)]
      ELSE [neg |-> TRUE, abs |-> DSub(damage, health.abs)]

\* die() emits enemyDied, and the scene's listener records the kill with the
\* conductor
onEnemyDied ==
  /\ recentKills' = recentKills + 1
  /\ conductorEvents' = <<>>
  /\ UNCHANGED <<lastCheckTime, difficultyMultiplier, harassmentFactor,
                 resistanceFactor, recentDamage, lastPerformanceCheck,
                 sceneTime>>

TakeDamage(amount, elementType) ==
  \E h \in {subtractHealth(enemy.currentHealth,
                           finalDamage(elementResistances(enemy.type),
                                       DFromInt(amount), elementType))} :
    /\ enemy' = [enemy EXCEPT !.currentHealth = h]
    /\ enemyCall' = [amount |-> amount, elementType |-> elementType,
                     died |-> h.neg \/ h.abs = DZero]
    /\ IF h.neg \/ h.abs = DZero
         THEN onEnemyDied
         ELSE UNCHANGED conductorVars
    /\ UNCHANGED <<abilityVars, waveVars, levelUpVars>>

(***************************************************************************)
(* An enemy of any of three classes under projectiles of HitAmounts damage *)
(* and of every element, basic or derived, or of none.  An enemy that has  *)
(* died stays in the scene, and can be hit, until its tween ends: hits are *)
(* taken until health is MaxOverkill below zero.                           *)
(***************************************************************************)
MaxOverkill == 20

HitAmounts == {10, 15}
HitElements ==
  {"none", "fire", "frost", "lightning", "earth", "lava", "plasma"}

EnemySpecInit ==
  /\ equippedAbilities = <<>>
  /\ equippedItems = <<>>
  /\ banishedAbilities = {}
  /\ call = NoCall
  /\ latestUpdateTime = 0
  /\ WaveInit
  /\ ConductorInit
  /\ LevelUpInit
  /\ \E type \in DOMAIN EnemyClasses :
       enemy = [type |-> type,
                currentHealth |->
                  [neg |-> FALSE,
                   abs |-> DFromInt(EnemyClasses[type].health)]]
  /\ enemyCall = NoHit

EnemyNext ==
  \E amount \in HitAmounts, elementType \in HitElements :
    /\ enemy.currentHealth.neg =>
         DCmp(enemy.currentHealth.abs, DFromInt(MaxOverkill)) <= 0
    /\ TakeDamage(amount, elementType)

EnemySpec == EnemySpecInit /\ [][EnemyNext]_vars

-----------------------------------------------------------------------------
(***************************************************************************)
(* The properties.  A call is read off call' (what was called, with what,  *)
(* and what it returned) against the state it was made in.                 *)
(***************************************************************************)
state == <<equippedAbilities, equippedItems, banishedAbilities>>

\* C1: upgradeAbility(id) and upgradeItem(id) return false and change no
\* state when id is not equipped or its instance is at maxLevel; once an
\* instance is at maxLevel every further upgrade or equip call on its id
\* returns false and leaves the level at maxLevel.
C1_UpgradeFailure ==
  [][ /\ ( /\ call'.op = "upgradeAbility"
           /\ \/ call'.id \notin DOMAIN equippedAbilities
              \/ equippedAbilities[call'.id].level
                   >= AbilityDef(call'.id).maxLevel )
         => (call'.result = FALSE /\ UNCHANGED state)
      /\ ( /\ call'.op = "upgradeItem"
           /\ \/ call'.id \notin DOMAIN equippedItems
              \/ equippedItems[call'.id] >= ItemDef(call'.id).maxLevel )
         => (call'.result = FALSE /\ UNCHANGED state)
      /\ ( /\ call'.op \in {"upgradeAbility", "equipAbility"}
           /\ call'.id \in DOMAIN equippedAbilities
           /\ equippedAbilities[call'.id].level
                = AbilityDef(call'.id).maxLevel )
         => /\ call'.result = FALSE
            /\ call'.id \in DOMAIN equippedAbilities'
            /\ equippedAbilities'[call'.id].level
                 = AbilityDef(call'.id).maxLevel
      /\ ( /\ call'.op \in {"upgradeItem", "equipItem"}
           /\ call'.id \in DOMAIN equippedItems
           /\ equippedItems[call'.id] = ItemDef(call'.id).maxLevel )
         => /\ call'.result = FALSE
            /\ call'.id \in DOMAIN equippedItems'
            /\ equippedItems'[call'.id] = ItemDef(call'.id).maxLevel
    ]_vars

\* An upgrade that failed on an instance at maxLevel
C1_Witness ==
  /\ call.op = "upgradeAbility" /\ call.result = FALSE
  /\ call.id \in DOMAIN equippedAbilities
  /\ equippedAbilities[call.id].level = AbilityDef(call.id).maxLevel

\* C2: equipAbility(id) and equipItem(id) with an id outside the catalog
\* return false and leave the equipped maps, every level, every
\* lastCastTime and the banished set as they were.
C2_UnknownId ==
  [][ ( \/ (call'.op = "equipAbility" /\ call'.id \notin AbilityIds)
        \/ (call'.op = "equipItem" /\ call'.id \notin ItemIds) )
      => (call'.result = FALSE /\ UNCHANGED state) ]_vars

\* An equip of an id outside the catalog, made when something is equipped
C2_Witness ==
  /\ call.op = "equipAbility" /\ call.id \notin AbilityIds
  /\ call.result = FALSE
  /\ DOMAIN equippedAbilities # {}

\* C3: for a catalog id, equipAbility(id) creates an instance with level 1
\* and lastCastTime 0 and returns true when id is not equipped; when it is
\* equipped the call returns and does what upgradeAbility(id) does (level
\* + 1, or failure at maxLevel), keeps lastCastTime and adds no instance.
C3_EquipAbility ==
  [][ (call'.op = "equipAbility" /\ call'.id \in AbilityIds) =>
        /\ UNCHANGED <<equippedItems, banishedAbilities>>
        /\ \A a \in DOMAIN equippedAbilities \ {call'.id} :
             /\ a \in DOMAIN equippedAbilities'
             /\ equippedAbilities'[a] = equippedAbilities[a]
        /\ IF call'.id \notin DOMAIN equippedAbilities
           THEN /\ call'.result = TRUE
                /\ DOMAIN equippedAbilities'
                     = DOMAIN equippedAbilities \cup {call'.id}
                /\ equippedAbilities'[call'.id]
                     = [level |-> 1, lastCastTime |-> 0]
           ELSE /\ DOMAIN equippedAbilities' = DOMAIN equippedAbilities
                /\ equippedAbilities'[call'.id].lastCastTime
                     = equippedAbilities[call'.id].lastCastTime
                /\ call'.result
                     = (equippedAbilities[call'.id].level
                          < AbilityDef(call'.id).maxLevel)
                /\ equippedAbilities'[call'.id].level
                     = IF call'.result
                       THEN equippedAbilities[call'.id].level + 1
                       ELSE equippedAbilities[call'.id].level
                /\ call'.result
                     = upgradeAbility(equippedAbilities, call'.id).result
                /\ equippedAbilities'
                     = upgradeAbility(equippedAbilities, call'.id).equipped
    ]_vars

\* An equip that upgraded an instance that had cast before
C3_Witness ==
  /\ call.op = "equipAbility" /\ call.result = TRUE
  /\ call.id \in DOMAIN equippedAbilities
  /\ equippedAbilities[call.id].level >= 2
  /\ equippedAbilities[call.id].lastCastTime > 0

\* C4: in every reachable state every equipped ability instance and every
\* equipped item instance has a level from 1 to its definition's maxLevel.
C4_LevelRange ==
  /\ \A id \in DOMAIN equippedAbilities :
       /\ id \in AbilityIds
       /\ 1 <= equippedAbilities[id].level
       /\ equippedAbilities[id].level <= AbilityDef(id).maxLevel
  /\ \A id \in DOMAIN equippedItems :
       /\ id \in ItemIds
       /\ 1 <= equippedItems[id]
       /\ equippedItems[id] <= ItemDef(id).maxLevel

\* An ability and an item both at maxLevel after an upgrade that failed
C4_Witness ==
  /\ call.op \in {"upgradeItem", "equipItem"} /\ call.result = FALSE
  /\ call.id \in DOMAIN equippedItems
  /\ equippedItems[call.id] = ItemDef(call.id).maxLevel
  /\ \E id \in DOMAIN equippedAbilities :
       equippedAbilities[id].level = AbilityDef(id).maxLevel

\* C5: on update(now), for each equipped instance on its own, a cast is
\* made and lastCastTime becomes now if and only if now - lastCastTime is
\* at least the cooldown of its level; otherwise it makes no cast and keeps
\* its lastCastTime.  So the time of a cast is at least the cooldown after
\* the time of the cast before.
C5_CooldownGate ==
  [][ call'.op = "update" =>
        /\ DOMAIN equippedAbilities' = DOMAIN equippedAbilities
        /\ DOMAIN call'.casts \subseteq DOMAIN equippedAbilities
        /\ \A id \in DOMAIN equippedAbilities :
             LET ability == equippedAbilities[id]
                 cooldown == AbilityStats[id][ability.level].cooldown
             IN  IF call'.time - ability.lastCastTime >= cooldown
                 THEN /\ id \in DOMAIN call'.casts
                      /\ equippedAbilities'[id]
                           = [ability EXCEPT !.lastCastTime = call'.time]
                      /\ equippedAbilities'[id].lastCastTime
                           >= ability.lastCastTime + cooldown
                 ELSE /\ id \notin DOMAIN call'.casts
                      /\ equippedAbilities'[id] = ability
    ]_vars

\* An update in which an instance cast while one that had cast before
\* another did not, at a time of at least twice its cooldown
C5_Witness ==
  /\ call.op = "update"
  /\ \E a \in DOMAIN call.casts, b \in DOMAIN equippedAbilities :
       /\ b \notin DOMAIN call.casts
       /\ equippedAbilities[b].lastCastTime > 0
       /\ equippedAbilities[a].lastCastTime
            >= 2 * AbilityStats[a][equippedAbilities[a].level].cooldown

\* C6: for every catalog ability and every level from 1 to maxLevel the
\* damage of a cast is floor(baseDamage * (1 + 0.2 * (level - 1))), which is
\* the integer quotient of baseDamage * (level + 4) by 5; base 15 at level
\* 3 gives 21; the damage does not decrease with the level.
C6_Damage ==
  /\ \A id \in AbilityIds :
       \A level \in 1..AbilityDef(id).maxLevel :
         /\ AbilityStats[id][level].damage
              = (AbilityDef(id).damage * (level + 4)) \div 5
         /\ level > 1 =>
              AbilityStats[id][level - 1].damage
                <= AbilityStats[id][level].damage
  /\ AbilityDef("fireball").damage = 15
  /\ AbilityStats["fireball"][3].damage = 21
  /\ \A id \in DOMAIN call.casts :
       /\ call.casts[id].damage
            = (AbilityDef(id).damage * (equippedAbilities[id].level + 4))
                \div 5
       /\ \A i \in 1..Len(call.casts[id].events) :
            call.casts[id].events[i].type = "projectileCreated" =>
              call.casts[id].events[i].projectile.damage
                = (AbilityDef(id).damage
                     * (equippedAbilities[id].level + 4)) \div 5

\* A cast of fireball at level 3, with damage 21
C6_Witness ==
  /\ call.op = "update" /\ "fireball" \in DOMAIN call.casts
  /\ equippedAbilities["fireball"].level = 3
  /\ call.casts["fireball"].damage = 21

\* C7: for every catalog ability and every level from 1 to maxLevel the
\* cooldown that gates a cast is floor(baseCooldown * (1 - 0.05 * (level -
\* 1))), which is the integer quotient of baseCooldown * (21 - level) by
\* 20; base 1000 at level 5 gives 800; it is positive at every level.
C7_Cooldown ==
  [][ /\ \A id \in AbilityIds :
           \A level \in 1..AbilityDef(id).maxLevel :
             /\ AbilityStats[id][level].cooldown
                  = (AbilityDef(id).cooldown * (21 - level)) \div 20
             /\ AbilityStats[id][level].cooldown > 0
      /\ AbilityDef("fireball").cooldown = 1000
      /\ AbilityStats["fireball"][5].cooldown = 800
      /\ call'.op = "update" =>
           \A id \in DOMAIN equippedAbilities :
             (id \in DOMAIN call'.casts)
               <=> (call'.time - equippedAbilities[id].lastCastTime
                      >= (AbilityDef(id).cooldown
                            * (21 - equippedAbilities[id].level)) \div 20)
    ]_vars

\* A cast of fireball at level 5, 800 after its cast at 800
C7_Witness ==
  /\ call.op = "update" /\ "fireball" \in DOMAIN call.casts
  /\ equippedAbilities["fireball"] = [level |-> 5, lastCastTime |-> 1600]

\* C8: a cast of an ability whose projectile count c is from 2 to 8 creates
\* exactly c projectiles, all at the position of the caster, the i-th (from
\* 0) at the angle of i * 360 / c degrees, each with the damage of the
\* level; for c = 4 the angles are 0, 90, 180 and 270 degrees.
C8_Ring ==
  \A id \in DOMAIN call.casts :
    LET cast == call.casts[id]
        c == cast.projectileCount
    IN  (2 <= c /\ c <= 8) =>
          /\ Len(cast.events) = c
          /\ c = getAbilityProjectileCount(AbilityDef(id),
                                           equippedAbilities[id].level)
          /\ \A i \in 1..c :
               /\ cast.events[i].type = "projectileCreated"
               /\ cast.events[i].projectile.pos = call.pos
               /\ cast.events[i].projectile.damage
                    = (AbilityDef(id).damage
                         * (equippedAbilities[id].level + 4)) \div 5
               /\ cast.events[i].angle.den > 0
               /\ cast.events[i].angle.num * c
                    = (i - 1) * 360 * cast.events[i].angle.den
               /\ c = 4 =>
                    cast.events[i].angle.num
                      = 90 * (i - 1) * cast.events[i].angle.den

\* A cast of four projectiles away from where the player starts
C8_Witness ==
  /\ call.op = "update" /\ call.pos = <<100, 50>>
  /\ \E id \in DOMAIN call.casts :
       /\ call.casts[id].projectileCount = 4
       /\ Len(call.casts[id].events) = 4
       /\ equippedAbilities[id].level = 2

\* C9: getRandomAbilityOptions returns an evolved definition only in a
\* state where it is neither equipped nor banished, the ability it evolves
\* from is equipped at maxLevel and its required item is equipped at the
\* required level or above; volcanic_eruption is not offered while lava is
\* below level 5 or tome_of_ages is below level 5 or not equipped.
C9_EvolutionOffered ==
  call.op = "getRandomAbilityOptions" =>
    /\ \A i \in 1..Len(call.options) :
         LET def == AbilityDef(call.options[i])
         IN  def.isEvolved =>
               /\ call.withItems
               /\ def.id \notin DOMAIN equippedAbilities
               /\ def.id \notin banishedAbilities
               /\ def.evolvesFrom \in DOMAIN equippedAbilities
               /\ equippedAbilities[def.evolvesFrom].level
                    = AbilityDef(def.evolvesFrom).maxLevel
               /\ def.requiredItem \in DOMAIN equippedItems
               /\ equippedItems[def.requiredItem] >= def.requiredItemLevel
    /\ (\E i \in 1..Len(call.options) :
          call.options[i] = "volcanic_eruption") =>
         /\ "lava" \in DOMAIN equippedAbilities
         /\ equippedAbilities["lava"].level = 5
         /\ "tome_of_ages" \in DOMAIN equippedItems
         /\ equippedItems["tome_of_ages"] = 5

\* A draw that offered volcanic_eruption
C9_Witness ==
  /\ call.op = "getRandomAbilityOptions"
  /\ \E i \in 1..Len(call.options) : call.options[i] = "volcanic_eruption"

\* C10: getRandomAbilityOptions returns a derived definition that is not
\* equipped only in a state where it is not banished and each of its
\* required elements is the element of an equipped ability that is not
\* derived; lava is not offered unless an ability of fire and one of earth
\* are both equipped.
C10_DerivedOffered ==
  call.op = "getRandomAbilityOptions" =>
    /\ \A i \in 1..Len(call.options) :
         LET def == AbilityDef(call.options[i])
         IN  (def.isDerived /\ def.id \notin DOMAIN equippedAbilities) =>
               /\ def.id \notin banishedAbilities
               /\ \A element \in def.requiredElements :
                    \E a \in DOMAIN equippedAbilities :
                      /\ ~ AbilityDef(a).isDerived
                      /\ AbilityDef(a).elementType = element
    /\ ( /\ "lava" \notin DOMAIN equippedAbilities
         /\ \E i \in 1..Len(call.options) : call.options[i] = "lava" ) =>
         /\ \E a \in DOMAIN equippedAbilities :
              AbilityDef(a).elementType = "fire"
         /\ \E a \in DOMAIN equippedAbilities :
              AbilityDef(a).elementType = "earth"

\* A draw that offered lava, not equipped
C10_Witness ==
  /\ call.op = "getRandomAbilityOptions"
  /\ "lava" \notin DOMAIN equippedAbilities
  /\ \E i \in 1..Len(call.options) : call.options[i] = "lava"

\* The pool the draw recorded in call was made from
drawnPool ==
  IF call.op = "getRandomAbilityOptions"
  THEN abilityPool(equippedAbilities, banishedAbilities, equippedItems,
                   call.withItems)
  ELSE itemPool(equippedItems)

\* C11: for every count N >= 0, getRandomAbilityOptions(N) and
\* getRandomItemOptions(N) return exactly min(N, |pool|) definitions,
\* pairwise distinct and all of the pool; when the pool has fewer than N
\* members, all of them are returned.
C11_DrawCount ==
  call.op \in {"getRandomAbilityOptions", "getRandomItemOptions"} =>
    /\ Len(call.options) = Min2(call.count, Len(drawnPool))
    /\ \A i, j \in 1..Len(call.options) :
         i # j => call.options[i] # call.options[j]
    /\ \A i \in 1..Len(call.options) :
         \E k \in 1..Len(drawnPool) : call.options[i] = drawnPool[k]
    /\ Len(drawnPool) < call.count =>
         \A k \in 1..Len(drawnPool) :
           \E i \in 1..Len(call.options) : call.options[i] = drawnPool[k]

\* A draw of the default count from a pool of four, which returned two
C11_Witness ==
  /\ call.op = "getRandomAbilityOptions" /\ call.count = DefaultOptionCount
  /\ Len(drawnPool) = 4
  /\ Len(call.options) = 2

\* C12: after banishAbility(id) no getRandomAbilityOptions call returns id,
\* from any tier, whatever is equipped or upgraded afterwards; and
\* banishAbility changes nothing but the banished set: an equipped instance
\* of id keeps its level and lastCastTime and goes on casting.
C12_Banished ==
  [][ /\ banishedAbilities \subseteq banishedAbilities'
      /\ call'.op = "banishAbility" =>
           /\ banishedAbilities' = banishedAbilities \cup {call'.id}
           /\ UNCHANGED <<equippedAbilities, equippedItems>>
      /\ call'.op = "getRandomAbilityOptions" =>
           \A i \in 1..Len(call'.options) :
             call'.options[i] \notin banishedAbilities
      /\ call'.op = "update" =>
           \A id \in DOMAIN equippedAbilities \cap banishedAbilities :
             (id \in DOMAIN call'.casts)
               <=> (call'.time - equippedAbilities[id].lastCastTime
                      >= AbilityStats[id][equippedAbilities[id].level]
                           .cooldown)
    ]_vars

\* A draw made when a banished evolution has all it requires and an
\* ability that was never equipped is banished too
C12_Witness ==
  /\ call.op = "getRandomAbilityOptions"
  /\ {"fireball", "volcanic_eruption"} \subseteq banishedAbilities
  /\ "volcanic_eruption" \notin DOMAIN equippedAbilities
  /\ "lava" \in DOMAIN equippedAbilities
  /\ equippedAbilities["lava"].level = 5
  /\ "tome_of_ages" \in DOMAIN equippedItems
  /\ equippedItems["tome_of_ages"] = 5

(***************************************************************************)
(* C13: on every WaveSystem.update call, with gameTime already advanced,   *)
(* the wave at currentWaveIndex fires if and only if currentWaveIndex is   *)
(* below the wave count and the wave's time is at most gameTime (equality  *)
(* fires).  Firing emits exactly one waveTriggered event, for that wave,   *)
(* and advances currentWaveIndex by exactly one; otherwise nothing is      *)
(* emitted and the index stays.  So at most one wave fires per call, and   *)
(* none fires while gameTime is below its time.                            *)
(***************************************************************************)
nextWaveDue ==
  /\ currentWaveIndex < Len(waves)
  /\ DCmp(DFromInt(waves[currentWaveIndex + 1].time), gameTime') <= 0

C13_WaveFires ==
  [][ /\ nextWaveDue =>
           /\ waveEvents' = Append(waveEvents,
                                   [type |-> "waveTriggered",
                                    wave |-> waves[currentWaveIndex + 1]])
           /\ currentWaveIndex' = currentWaveIndex + 1
      /\ ~nextWaveDue =>
           /\ waveEvents' = waveEvents
           /\ currentWaveIndex' = currentWaveIndex
      /\ Len(waveEvents') <= Len(waveEvents) + 1 ]_vars

\* the second wave has just fired on the call that brought gameTime to
\* exactly its 180 seconds
C13_Witness ==
  /\ gameTime = DFromInt(180)
  /\ currentWaveIndex = 2
  /\ Len(waveEvents) = 2
  /\ waveEvents[2].wave.time = 180

(***************************************************************************)
(* C14: in a run of update calls without reset, currentWaveIndex stays in  *)
(* 0..wave count and never decreases, no wave is fired twice, and once     *)
(* currentWaveIndex equals the wave count an update neither fires a wave   *)
(* nor changes the index.                                                  *)
(***************************************************************************)
C14_WaveCursor ==
  /\ [](/\ currentWaveIndex \in 0..Len(waves)
        /\ \A i, j \in DOMAIN waveEvents :
             waveEvents[i].wave = waveEvents[j].wave => i = j)
  /\ [][ /\ currentWaveIndex' >= currentWaveIndex
         /\ currentWaveIndex = Len(waves) =>
              /\ currentWaveIndex' = currentWaveIndex
              /\ waveEvents' = waveEvents ]_vars

\* every wave has fired, the last some calls ago
C14_Witness ==
  /\ currentWaveIndex = Len(waves)
  /\ Len(waveEvents) = Len(waves)
  /\ DCmp(gameTime, DFromInt(MaxWaveTime)) > 0

(***************************************************************************)
(* C15: a call of ConductorSystem.update evaluates if and only if the      *)
(* clock it is given is at least 30 000 ms past the last evaluation (past  *)
(* 0 before the first); it evaluates at most once; an evaluation is at     *)
(* least 30 000 ms after the one before; and no other call evaluates.      *)
(***************************************************************************)
C15_EvaluationPeriod ==
  [][ /\ sceneTime' # sceneTime =>
           /\ conductorEvents' # <<>> <=> sceneTime' - lastCheckTime >= 30000
           /\ Len(conductorEvents') <= 1
           /\ conductorEvents' # <<>> =>
                /\ lastCheckTime' = sceneTime'
                /\ lastCheckTime' - lastCheckTime >= 30000
           /\ conductorEvents' = <<>> => lastCheckTime' = lastCheckTime
      /\ sceneTime' = sceneTime =>
           /\ conductorEvents' = <<>>
           /\ lastCheckTime' = lastCheckTime ]_vars

\* the second evaluation of a run, exactly one interval after the first
C15_Witness ==
  /\ lastCheckTime = 2 * checkInterval
  /\ sceneTime = lastCheckTime
  /\ conductorEvents # <<>>

(***************************************************************************)
(* C16: an evaluation classified performing well sets each factor to       *)
(* min(upper, old + 0.1), with upper 1.3 for difficultyMultiplier and 1.5  *)
(* for harassmentFactor and resistanceFactor; one classified struggling    *)
(* sets each to max(lower, old - 0.1), with lower 0.7, 0.5 and 0.5.  In    *)
(* particular a struggling evaluation takes difficultyMultiplier from 1.0  *)
(* to 0.9, from 0.9 to 0.8, from 0.8 to 0.7, and leaves 0.7 at 0.7.        *)
(***************************************************************************)
C16_FactorSteps ==
  [][conductorEvents' # <<>> =>
       /\ isPerformingWell(lastPerformanceCheck') =>
            /\ difficultyMultiplier' =
                 DMin(DLit(13, 10), DAdd(difficultyMultiplier, DLit(1, 10)))
            /\ harassmentFactor' =
                 DMin(DLit(15, 10), DAdd(harassmentFactor, DLit(1, 10)))
            /\ resistanceFactor' =
                 DMin(DLit(15, 10), DAdd(resistanceFactor, DLit(1, 10)))
       /\ ~isPerformingWell(lastPerformanceCheck')
            /\ isStruggling(lastPerformanceCheck') =>
            /\ difficultyMultiplier' =
                 DMax(DLit(7, 10), DSub(difficultyMultiplier, DLit(1, 10)))
            /\ harassmentFactor' =
                 DMax(DLit(5, 10), DSub(harassmentFactor, DLit(1, 10)))
            /\ resistanceFactor' =
                 DMax(DLit(5, 10), DSub(resistanceFactor, DLit(1, 10)))
            /\ difficultyMultiplier = DFromInt(1) =>
                 difficultyMultiplier' = DLit(9, 10)
            /\ difficultyMultiplier = DLit(9, 10) =>
                 difficultyMultiplier' = DLit(8, 10)
            /\ difficultyMultiplier = DLit(8, 10) =>
                 difficultyMultiplier' = DLit(7, 10)
            /\ difficultyMultiplier = DLit(7, 10) =>
                 difficultyMultiplier' = DLit(7, 10)]_vars

\* the third struggling evaluation in a row has left difficultyMultiplier at
\* the double 0.8 - 0.1, which is above the double 0.7
C16_Witness ==
  /\ conductorEvents # <<>>
  /\ lastCheckTime = 3 * checkInterval
  /\ difficultyMultiplier = DSub(DLit(8, 10), DLit(1, 10))
  /\ DCmp(difficultyMultiplier, DLit(7, 10)) > 0

(***************************************************************************)
(* C17: whatever the interleaving of update, recordKill, recordDamage and  *)
(* reset, difficultyMultiplier stays within [0.7, 1.3] and                 *)
(* harassmentFactor and resistanceFactor within [0.5, 1.5]; and a neutral  *)
(* evaluation takes no factor from one side of 1.0 to the other.           *)
(***************************************************************************)
within(x, lower, upper) == DCmp(lower, x) <= 0 /\ DCmp(x, upper) <= 0

sameSide(old, new) ==
  /\ DCmp(old, DFromInt(1)) >= 0 => DCmp(new, DFromInt(1)) >= 0
  /\ DCmp(old, DFromInt(1)) <= 0 => DCmp(new, DFromInt(1)) <= 0

C17_FactorRanges ==
  /\ [](/\ within(difficultyMultiplier, DLit(7, 10), DLit(13, 10))
        /\ within(harassmentFactor, DLit(5, 10), DLit(15, 10))
        /\ within(resistanceFactor, DLit(5, 10), DLit(15, 10)))
  /\ [][(/\ conductorEvents' # <<>>
         /\ ~isPerformingWell(lastPerformanceCheck')
         /\ ~isStruggling(lastPerformanceCheck')) =>
          /\ sameSide(difficultyMultiplier, difficultyMultiplier')
          /\ sameSide(harassmentFactor, harassmentFactor')
          /\ sameSide(resistanceFactor, resistanceFactor')]_vars

\* a neutral evaluation has just decayed factors that stood at their upper
\* bounds
C17_Witness ==
  /\ conductorEvents # <<>>
  /\ difficultyMultiplier = decay(DLit(13, 10))
  /\ harassmentFactor = decay(DLit(15, 10))
  /\ ~isPerformingWell(lastPerformanceCheck)
  /\ ~isStruggling(lastPerformanceCheck)

(***************************************************************************)
(* C18: no performance is classified both performing well (health above    *)
(* 70 %, killRate above 5, damage below 50) and struggling (health below   *)
(* 40 %, or killRate below 2, or damage above 100), so an evaluation that  *)
(* takes the performing-well branch has skipped no struggling case.        *)
(***************************************************************************)
C18_Exclusive ==
  ~(isPerformingWell(lastPerformanceCheck)
      /\ isStruggling(lastPerformanceCheck))

\* an evaluation of a performance just inside every performing-well
\* threshold
C18_Witness ==
  /\ conductorEvents # <<>>
  /\ lastPerformanceCheck =
       [healthPercentage |-> DFromInt(71), killRate |-> DLit(151, 30),
        damageReceived |-> 49]
  /\ isPerformingWell(lastPerformanceCheck)

(***************************************************************************)
(* C19: an evaluation uses as killRate the kills recorded in recentKills   *)
(* divided by 30, and as damage taken recentDamage, and leaves both        *)
(* counters at zero; between evaluations recentKills grows by one per      *)
(* recordKill and recentDamage by the amount of each recordDamage and      *)
(* nothing else changes them.  So an evaluation counts exactly the calls   *)
(* made since the evaluation before it.                                    *)
(***************************************************************************)
C19_Accumulators ==
  [][ /\ conductorEvents' # <<>> =>
           /\ lastPerformanceCheck'.killRate = DLit(recentKills, 30)
           /\ lastPerformanceCheck'.damageReceived = recentDamage
           /\ recentKills' = 0
           /\ recentDamage' = 0
      /\ conductorEvents' = <<>> =>
           /\ lastPerformanceCheck' = lastPerformanceCheck
           /\ \/ recentKills' = recentKills /\ recentDamage' = recentDamage
              \/ recentKills' = recentKills + 1
                   /\ recentDamage' = recentDamage
              \/ recentKills' = recentKills
                   /\ recentDamage' - recentDamage \in DamageAmounts ]_vars

\* the second evaluation of a run has counted the 60 kills and the two hits
\* of its own period
C19_Witness ==
  /\ conductorEvents # <<>>
  /\ lastCheckTime = 2 * checkInterval
  /\ lastPerformanceCheck.killRate = DFromInt(2)
  /\ lastPerformanceCheck.damageReceived = 120
  /\ recentKills = 0
  /\ recentDamage = 0

(***************************************************************************)
(* C20: takeDamage with element none, or with an element that has no entry *)
(* in the enemy's resistance table (a derived element such as lava or      *)
(* plasma), lowers currentHealth by the base amount; with an element of    *)
(* the table it lowers currentHealth by the base amount times the table's  *)
(* multiplier.  So base 10 with multiplier 0.2 (frost on a frost bat)      *)
(* removes 2, and base 10 with element none removes 10.                    *)
(***************************************************************************)
C20_DamageResolution ==
  [][ /\ (enemyCall'.elementType
            \notin {"fire", "frost", "lightning", "earth"}) =>
           enemy'.currentHealth =
             subtractHealth(enemy.currentHealth, DFromInt(enemyCall'.amount))
      /\ (enemyCall'.elementType \in {"fire", "frost", "lightning", "earth"}) =>
           enemy'.currentHealth =
             subtractHealth(enemy.currentHealth,
                            DMul(DFromInt(enemyCall'.amount),
                                 DLit(EnemyClasses[enemy.type]
                                        .resistances[enemyCall'.elementType],
                                      10)))
      /\ (/\ enemy.type = "frostbat"
          /\ enemy.currentHealth = [neg |-> FALSE, abs |-> DFromInt(15)]
          /\ enemyCall'.amount = 10) =>
           /\ enemyCall'.elementType = "frost" =>
                enemy'.currentHealth = [neg |-> FALSE, abs |-> DFromInt(13)]
           /\ enemyCall'.elementType \in {"none", "lava", "plasma"} =>
                enemy'.currentHealth = [neg |-> FALSE, abs |-> DFromInt(5)]
      /\ enemy'.type = enemy.type ]_vars

\* a frost bat at full health has taken a frost hit of 10 and stands at 13
C20_Witness ==
  /\ enemy = [type |-> "frostbat",
              currentHealth |-> [neg |-> FALSE, abs |-> DFromInt(13)]]
  /\ enemyCall = [amount |-> 10, elementType |-> "frost", died |-> FALSE]

C30_TwinFactors == harassmentFactor = resistanceFactor

\* both factors have been clamped at their upper bound, beyond that of
\* difficultyMultiplier
C30_Witness ==
  /\ conductorEvents # <<>>
  /\ harassmentFactor = DLit(15, 10)
  /\ resistanceFactor = DLit(15, 10)
  /\ difficultyMultiplier = DLit(13, 10)

(***************************************************************************)
(* C23, as stated: over equip, upgrade and update calls the lastCastTime   *)
(* of every equipped instance never decreases, and an update call whose    *)
(* time is smaller than that of an earlier update call triggers no cast.   *)
(***************************************************************************)
lastCastTimeKept ==
  \A id \in DOMAIN equippedAbilities :
    /\ id \in DOMAIN equippedAbilities'
    /\ equippedAbilities'[id].lastCastTime
         >= equippedAbilities[id].lastCastTime

C23_NoCastBackInTime ==
  [][ /\ lastCastTimeKept
      /\ (call'.op = "update" /\ call'.time < latestUpdateTime) =>
           DOMAIN call'.casts = {} ]_vars

(***************************************************************************)
(* C23, amended: over equip, upgrade and update calls every equipped       *)
(* instance stays equipped and its lastCastTime never decreases; an update *)
(* call whose time is smaller than the lastCastTime of an instance does    *)
(* not cast that instance.  (It may cast another one, equipped or upgraded *)
(* since the later-timed call.)                                            *)
(***************************************************************************)
C23_LastCastTime ==
  [][ /\ lastCastTimeKept
      /\ call'.op = "update" =>
           \A id \in DOMAIN equippedAbilities :
             call'.time < equippedAbilities[id].lastCastTime =>
               /\ id \notin DOMAIN call'.casts
               /\ equippedAbilities'[id] = equippedAbilities[id] ]_vars

\* an update with a time before the last cast of one instance has cast
\* another
C23_Witness ==
  /\ call.op = "update"
  /\ call.time < latestUpdateTime
  /\ \E id \in DOMAIN equippedAbilities :
       call.time < equippedAbilities[id].lastCastTime
  /\ DOMAIN call.casts # {}

(***************************************************************************)
(* C24: every ability at every level that equip and upgrade can reach has  *)
(* a projectile count in 1..8, so every cast that passes the cooldown gate *)
(* (and sets lastCastTime) emits at least one attack request or            *)
(* projectile.                                                             *)
(***************************************************************************)
C24_CastEmits ==
  /\ \A id \in DOMAIN equippedAbilities :
       getAbilityProjectileCount(AbilityDef(id), equippedAbilities[id].level)
         \in 1..8
  /\ \A id \in DOMAIN call.casts :
       /\ call.casts[id].projectileCount \in 1..8
       /\ call.casts[id].events # <<>>

\* frostnova at level 3 has passed the gate with 9 projectiles to cast, has
\* emitted nothing, and has its lastCastTime set to the time of the call
C24_Witness ==
  /\ call.op = "update"
  /\ "frostnova" \in DOMAIN call.casts
  /\ equippedAbilities["frostnova"].level = 3
  /\ call.casts["frostnova"].projectileCount = 9
  /\ call.casts["frostnova"].events = <<>>
  /\ equippedAbilities["frostnova"].lastCastTime = call.time
  /\ call.time > 0

(***************************************************************************)
(* C26: every option that getRandomAbilityOptions or getRandomItemOptions  *)
(* has returned can be taken: equipAbility or equipItem, called with its   *)
(* id in the state of the draw, returns true and either adds an instance   *)
(* of level 1 or raises the level of the equipped instance by one, leaving *)
(* every other instance as it is; an option that is equipped is below its  *)
(* maxLevel and is not an evolved ability.                                 *)
(***************************************************************************)
C26_OptionsCanBeTaken ==
  /\ call.op = "getRandomAbilityOptions" =>
       \A i \in DOMAIN call.options :
         \E id \in {call.options[i]} :
           \E r \in {equipAbility(equippedAbilities, id)} :
             /\ r.result
             /\ IF id \in DOMAIN equippedAbilities
                  THEN /\ equippedAbilities[id].level < AbilityDef(id).maxLevel
                       /\ ~ AbilityDef(id).isEvolved
                       /\ r.equipped =
                            [equippedAbilities EXCEPT ![id].level = @ + 1]
                  ELSE /\ DOMAIN r.equipped =
                            DOMAIN equippedAbilities \cup {id}
                       /\ r.equipped[id].level = 1
                       /\ \A other \in DOMAIN equippedAbilities :
                            r.equipped[other] = equippedAbilities[other]
  /\ call.op = "getRandomItemOptions" =>
       \A i \in DOMAIN call.options :
         \E id \in {call.options[i]} :
           \E r \in {equipItem(equippedItems, id)} :
             /\ r.result
             /\ IF id \in DOMAIN equippedItems
                  THEN /\ equippedItems[id] < ItemDef(id).maxLevel
                       /\ r.equipped = [equippedItems EXCEPT ![id] = @ + 1]
                  ELSE /\ DOMAIN r.equipped = DOMAIN equippedItems \cup {id}
                       /\ r.equipped[id] = 1
                       /\ \A other \in DOMAIN equippedItems :
                            r.equipped[other] = equippedItems[other]

\* with lava at its maxLevel and tome_of_ages at level 5 the draw offers the
\* evolution, which is not equipped, and not lava
C26_Witness ==
  /\ call.op = "getRandomAbilityOptions"
  /\ "lava" \in DOMAIN equippedAbilities
  /\ equippedAbilities["lava"].level = AbilityDef("lava").maxLevel
  /\ "volcanic_eruption" \notin DOMAIN equippedAbilities
  /\ Len(call.options) = AbilityOptionCount
  /\ call.options[1] = "volcanic_eruption"
  /\ \A i \in DOMAIN call.options : call.options[i] # "lava"

(***************************************************************************)
(* C27: a banish on the level-up screen leaves the game scene paused with  *)
(* the cards of a new draw shown, and the game scene is resumed only by    *)
(* the selection of a card.                                                *)
(***************************************************************************)
C27_BanishKeepsChoice ==
  [][ /\ (cardOptions # <<>> /\ call'.op = "onCardBanished") =>
           (gamePaused' /\ cardOptions' # <<>>)
      /\ (gamePaused /\ ~ gamePaused') => call'.op = "onCardSelected"
    ]_vars

\* an offered ability has been banished at the first level-up: no cards are
\* shown, the game scene runs, and nothing has been equipped
C27_Witness ==
  /\ call.op = "onCardBanished"
  /\ call.id \in banishedAbilities
  /\ playerLevel = 2
  /\ ~ gamePaused
  /\ cardOptions = <<>>
  /\ equippedAbilities = <<>>
  /\ equippedItems = <<>>

(***************************************************************************)
(* C29: when an ability with one projectile casts while an enemy is within *)
(* the attack range, the projectile that the attack request results in has *)
(* the element of the ability and the damage of the ability at its level.  *)
(***************************************************************************)
C29_SingleProjectile ==
  \A id \in DOMAIN call.casts :
    call.casts[id].projectileCount = 1 =>
      \A i \in DOMAIN call.casts[id].events :
        call.casts[id].events[i].type = "requestAttack" =>
          \A j \in DOMAIN onPlayerRequestAttack(TRUE, call.pos) :
            LET created == onPlayerRequestAttack(TRUE, call.pos)[j].projectile
            IN  /\ created.elementType = AbilityDef(id).elementType
                /\ created.damage = call.casts[id].damage

\* frostbolt at level 1 has cast with one projectile, and the attack request
\* results in a fire projectile of 15 damage
C29_Witness ==
  /\ call.op = "update"
  /\ "frostbolt" \in DOMAIN call.casts
  /\ call.casts["frostbolt"].projectileCount = 1
  /\ call.casts["frostbolt"].events = castSingleProjectile
  /\ AbilityDef("frostbolt").elementType = "frost"
  /\ call.casts["frostbolt"].damage # ProjectileClasses["fire"]
  /\ onPlayerRequestAttack(TRUE, call.pos)[1].projectile.elementType = "fire"
  /\ onPlayerRequestAttack(TRUE, call.pos)[1].projectile.damage = 15

(***************************************************************************)
(* C28: when update keeps being called with positive deltas and without    *)
(* reset, the waves fire in timeline order with none skipped (the i-th     *)
(* event is that of the i-th wave), whatever the gaps between the calls,   *)
(* and currentWaveIndex eventually reaches the wave count, with every wave *)
(* fired.                                                                  *)
(***************************************************************************)
C28_AllWavesFire ==
  /\ [](/\ Len(waveEvents) = currentWaveIndex
        /\ \A i \in DOMAIN waveEvents : waveEvents[i].wave = waves[i])
  /\ <>(currentWaveIndex = Len(waves) /\ Len(waveEvents) = Len(waves))

\* every wave has fired although the first call came 1500 s into the run,
\* after the time of the last wave
\* C22: the death of an enemy is handled once, by the takeDamage call that
\* first brings its health to zero or below (a call on an enemy that is
\* already dead records no further kill), and the health of a dead enemy
\* never rises above zero again
C22_DiesOnce ==
  [][ /\ recentKills' # recentKills =>
           ~(enemy.currentHealth.neg \/ enemy.currentHealth.abs = DZero)
      /\ (enemy.currentHealth.neg \/ enemy.currentHealth.abs = DZero) =>
           (enemy'.currentHealth.neg \/ enemy'.currentHealth.abs = DZero)
    ]_vars

\* a swarmling hit twice by a projectile of 10 damage: two kills recorded
C22_Witness ==
  /\ enemy.type = "swarmling"
  /\ enemy.currentHealth = [neg |-> TRUE, abs |-> DFromInt(10)]
  /\ recentKills = 2

\* C25: every enemy entry of a fired wave with a base count of at least one
\* has at least one spawn scheduled, whatever difficultyMultiplier is
C25_EverySpawnScheduled ==
  \A w \in DOMAIN scheduledSpawns :
    \A i \in DOMAIN scheduledSpawns[w] :
      waves[w].enemies[i].count >= 1 => scheduledSpawns[w][i].count >= 1

\* the first boss wave has fired while difficultyMultiplier was below one
C25_Witness ==
  /\ Len(scheduledSpawns) >= 5
  /\ scheduledSpawns[5] = << [type |-> "boss_lava_turtle", count |-> 0] >>
  /\ DCmp(difficultyMultiplier, DFromInt(1)) < 0

C28_Witness ==
  /\ currentWaveIndex = Len(waves)
  /\ [i \in DOMAIN waveEvents |-> waveEvents[i].wave] = waves
  /\ gameTime = DFromInt(1500 + 8 * 60)
  /\ waveCalls = Len(waves)

=============================================================================
